---- MODULE Spec2Model ----
(***************************************************************************)
(* Gallery index of bdanaher97/Folders-aliases: lib/gallery (order, paths, *)
(* cover, build) and scripts/generate-manifest.mjs.                        *)
(*                                                                         *)
(* Representation.  A JavaScript string is a sequence of atoms.  An atom   *)
(* is either one significant character ("/", "\\", "#", " ", the BOM and   *)
(* the two zero-width characters) or a run of ordinary characters that the *)
(* code never looks inside, except for its case and its extension          *)
(* ("x.jpg", "A", "..").  A directory entry name is a one-atom string.     *)
(* A text file is the sequence of its lines (what split(/\r?\n/) yields).  *)
(* A web path "/" + segs.join("/") is the sequence segs: entry names hold  *)
(* no "/", so the join loses nothing.  undefined is the empty sequence for *)
(* coverWebPath, images and children: the code never produces an empty     *)
(* array or string for them that a consumer tells apart from undefined.    *)
(***************************************************************************)
EXTENDS Integers, Sequences, FiniteSets, TLC

VARIABLES
    ls,        \* directory listings: path -> [dirs, files], in readdir order
    ctl,       \* control files: path -> file name -> [ex, lines]
    manifest,  \* public/portfolio-manifest.json: [ex, parses, node]
    env,       \* process.env and .dev-limit as the dev cap sees them
    index,     \* tree returned by the last getGalleryIndex() call
    source,    \* which branch of getGalleryIndex produced index
    call       \* last direct call of an exported pure function

vars == <<ls, ctl, manifest, env, index, source, call>>

-----------------------------------------------------------------------------
(* Bounds *)

\* Longest items / orderNames list handed to applyOrder in SpecOrder.
MaxLen == 3

\* Most departures from the bare collection (a directory's media files, its
\* .order, its .folders/.images pair, its .cover, the dev cap) in one initial
\* collection of Spec.
MaxFeatures == 3

-----------------------------------------------------------------------------
(* Strings *)

Range(s) == {s[i] : i \in DOMAIN s}

Includes(s, x) == \E i \in DOMAIN s : s[i] = x

Last(s) == s[Len(s)]

Str(a) == <<a>>

EmptyStr == <<>>

Undefined == <<>>

WeirdChars == {"BOM", "WJ", "ZWSP"}

WhiteSpace == {" ", "BOM"}

RECURSIVE DropWhileIn(_, _)
DropWhileIn(s, chars) ==
    IF s # <<>> /\ Head(s) \in chars THEN DropWhileIn(Tail(s), chars) ELSE s

RECURSIVE DropEndWhileIn(_, _)
DropEndWhileIn(s, chars) ==
    IF s # <<>> /\ Last(s) \in chars
    THEN DropEndWhileIn(SubSeq(s, 1, Len(s) - 1), chars)
    ELSE s

stripWeirdPrefix(s) == DropWhileIn(s, WeirdChars)

trim(s) == DropEndWhileIn(DropWhileIn(s, WhiteSpace), WhiteSpace)

removeAllBOM(s) == SelectSeq(s, LAMBDA c : c # "BOM")

backslashesToSlashes(s) == [i \in DOMAIN s |-> IF s[i] = "\\" THEN "/" ELSE s[i]]

stripLeadingSlashes(s) == DropWhileIn(s, {"/"})

startsWith(s, a) == s # <<>> /\ Head(s) = a

startsWithSlashSlash(s) == Len(s) >= 2 /\ s[1] = "/" /\ s[2] = "/"

RECURSIVE split(_, _)
split(s, sep) ==
    IF ~ Includes(s, sep) THEN <<s>>
    ELSE LET i == CHOOSE k \in DOMAIN s :
                      s[k] = sep /\ \A j \in 1..(k - 1) : s[j] # sep
         IN <<SubSeq(s, 1, i - 1)>> \o split(SubSeq(s, i + 1, Len(s)), sep)

lowerAtom(a) ==
    CASE a = "A" -> "a"
      [] a = "B" -> "b"
      [] a = "C" -> "c"
      [] a = "X.JPG" -> "x.jpg"
      [] a = "Portfolio" -> "portfolio"
      [] a = ".JPG" -> ".jpg"
      [] OTHER -> a

toLowerCase(s) == [i \in DOMAIN s |-> lowerAtom(s[i])]

extAtom(a) ==
    CASE a \in {"x.jpg", "y.jpg"} -> ".jpg"
      [] a = "X.JPG" -> ".JPG"
      [] a = "z.bmp" -> ".bmp"
      [] a = "n.txt" -> ".txt"
      [] OTHER -> ""

extname(s) == IF s = <<>> THEN EmptyStr
              ELSE IF extAtom(Last(s)) = "" THEN EmptyStr
              ELSE Str(extAtom(Last(s)))

startsWithDot(s) == s # <<>> /\ Head(s) \in {".", "..", ".meta"}

-----------------------------------------------------------------------------
(* lib/gallery/order.ts *)

NoFile == [ex |-> FALSE, lines |-> <<>>]

File(lines) == [ex |-> TRUE, lines |-> lines]

\* A file that exists (existsSync) and that readFileSync cannot read.
Unreadable(lines) == [ex |-> TRUE, lines |-> lines, denied |-> TRUE]

\* readFileSync returns the text instead of throwing.
canRead(f) == f.ex /\ "denied" \notin DOMAIN f

\* Mutant: the text of the file is used whether or not it could be read.
readOrderUnguarded(absDir) ==
    LET f == ctl[absDir][".order"]
    IN IF ~ f.ex THEN <<>>
       ELSE SelectSeq([i \in DOMAIN f.lines |-> trim(removeAllBOM(f.lines[i]))],
                      LAMBDA line : /\ Len(line) > 0
                                    /\ ~ startsWith(line, "#")
                                    /\ ~ startsWithSlashSlash(line))

readListFile(absDir, file) ==
    LET f == ctl[absDir][file]
    IN IF ~ canRead(f) THEN <<>>
       ELSE SelectSeq([i \in DOMAIN f.lines |-> trim(f.lines[i])],
                      LAMBDA s : s # EmptyStr)

readOrder(absDir) ==
    LET f == ctl[absDir][".order"]
        text == [i \in DOMAIN f.lines |-> removeAllBOM(f.lines[i])]
    IN IF ~ canRead(f) THEN <<>>
       ELSE SelectSeq([i \in DOMAIN text |-> trim(text[i])],
                      LAMBDA line : /\ Len(line) > 0
                                    /\ ~ startsWith(line, "#")
                                    /\ ~ startsWithSlashSlash(line))

readFolders(absDir) == readListFile(absDir, ".folders")

readImages(absDir) == readListFile(absDir, ".images")

\* Mutant: the unlisted items are dropped.
applyOrderNoLeftovers(items, orderNames) ==
    IF Len(orderNames) = 0 THEN items
    ELSE SelectSeq(orderNames, LAMBDA n : n \in Range(items))

\* Mutant: a name listed again is not emitted again.
applyOrderDedup(items, orderNames) ==
    IF Len(orderNames) = 0 THEN items
    ELSE LET firsts == SelectSeq([i \in DOMAIN orderNames |-> i], LAMBDA i :
                           \A j \in 1..(i - 1) : orderNames[j] # orderNames[i])
             inOrder == SelectSeq([k \in DOMAIN firsts |-> orderNames[firsts[k]]],
                                  LAMBDA n : n \in Range(items))
         IN inOrder \o SelectSeq(items, LAMBDA n : ~ Includes(orderNames, n))

applyOrder(items, orderNames) ==
    IF Len(orderNames) = 0 THEN items
    ELSE LET set == Range(items)
             inOrder == SelectSeq(orderNames, LAMBDA n : n \in set)
             leftovers == SelectSeq(items, LAMBDA n : ~ Includes(orderNames, n))
         IN inOrder \o leftovers

-----------------------------------------------------------------------------
(* lib/gallery/paths.ts *)

IMAGE_EXT_paths ==
    {Str(".jpg"), Str(".jpeg"), Str(".png"), Str(".webp"), Str(".gif"),
     Str(".avif"), Str(".bmp"), Str(".tiff")}

isImageFile(file) == toLowerCase(extname(file)) \in IMAGE_EXT_paths

encodeAtom(a) ==
    CASE a = " " -> "%20"
      [] a = "#" -> "%23"
      [] a = "/" -> "%2F"
      [] a = "%" -> "%25"
      [] OTHER -> a

encodeURIComponent(s) == [i \in DOMAIN s |-> encodeAtom(s[i])]

slugify(name) == encodeURIComponent(name)

\* fs.readdirSync: the entries [name, kind] of a directory, in listing order;
\* a path that is no directory throws, which every caller catches as "no entries".
readDirSafe(p) == IF p \in DOMAIN ls THEN ls[p] ELSE <<>>

entryNames(entries) == [i \in DOMAIN entries |-> entries[i].name]

filesOf(entries) == entryNames(SelectSeq(entries, LAMBDA e : e.kind = "file"))

dirsOf(entries) == entryNames(SelectSeq(entries, LAMBDA e : e.kind = "dir"))

-----------------------------------------------------------------------------
(* lib/gallery/cover.ts *)

IMAGE_EXT_cover ==
    {Str(".jpg"), Str(".jpeg"), Str(".png"), Str(".webp"), Str(".gif"),
     Str(".avif")}

hasCoverImageExt(name) == toLowerCase(extname(name)) \in IMAGE_EXT_cover

RECURSIVE normalizePartsInto(_, _)
normalizePartsInto(out, parts) ==
    IF parts = <<>> THEN out
    ELSE LET p == Head(parts)
         IN IF p = EmptyStr \/ p = Str(".") THEN normalizePartsInto(out, Tail(parts))
            ELSE IF p = Str("..")
                 THEN normalizePartsInto(
                          IF out = <<>> THEN out ELSE SubSeq(out, 1, Len(out) - 1),
                          Tail(parts))
                 ELSE normalizePartsInto(Append(out, p), Tail(parts))

normalizeParts(parts) == normalizePartsInto(<<>>, parts)

slugToWebPath(parts) == <<Str("Portfolio")>> \o parts

\* /^portfolio\//i
startsWithPortfolioSlash(s) ==
    Len(s) >= 2 /\ lowerAtom(s[1]) = "portfolio" /\ s[2] = "/"

\* The null of string[] | null: no list of parts holds an empty segment.
NullParts == <<EmptyStr>>

\* null is NullParts; the empty list of parts is the collection root.
resolveLineToSlugParts(rawLine, currentSlugParts) ==
    LET line0 == trim(stripWeirdPrefix(rawLine))
        line == backslashesToSlashes(line0)
        cleaned == stripLeadingSlashes(line)
        relSegs == split(cleaned, "/")
    IN IF line0 = EmptyStr \/ startsWith(line0, "#") THEN NullParts
       ELSE IF startsWithPortfolioSlash(cleaned)
            THEN normalizeParts(Tail(split(cleaned, "/")))
       ELSE IF startsWith(rawLine, "/") THEN NullParts
       ELSE normalizeParts(currentSlugParts \o
                IF toLowerCase(Head(relSegs)) = Str("portfolio")
                THEN Tail(relSegs) ELSE relSegs)

\* Mutant: the "#" of a comment line is dropped and the rest is read.
readFirstLineUncommenting(absDir, filename) ==
    LET f == ctl[absDir][filename]
        meaningful(l) == trim(stripWeirdPrefix(l)) # EmptyStr
        found == SelectSeq(f.lines, meaningful)
    IN IF ~ f.ex \/ found = <<>> THEN EmptyStr
       ELSE trim(DropWhileIn(trim(stripWeirdPrefix(Head(found))), {"#"}))

\* null is the empty string: every caller tests the result for truthiness.
readFirstLineIfExists(absDir, filename) ==
    LET f == ctl[absDir][filename]
        txt == IF f.lines = <<>> THEN <<>>
               ELSE <<stripWeirdPrefix(Head(f.lines))>> \o Tail(f.lines)
        meaningful(l) == LET t == trim(stripWeirdPrefix(l))
                         IN t # EmptyStr /\ ~ startsWith(t, "#")
        found == SelectSeq(txt, meaningful)
    IN IF ~ canRead(f) \/ found = <<>> THEN EmptyStr
       ELSE trim(stripWeirdPrefix(Head(found)))

\* entries.find(name === seg), else entries.find(lower(name) === lower(seg));
\* the result is a sequence of at most one entry.
findEntry(entries, seg) ==
    LET exact == SelectSeq(entries, LAMBDA e : e.name = seg)
        ci == SelectSeq(entries, LAMBDA e : toLowerCase(e.name) = toLowerCase(seg))
    IN IF exact # <<>> THEN <<Head(exact)>>
       ELSE IF ci # <<>> THEN <<Head(ci)>>
       ELSE <<>>

RECURSIVE correctCaseFrom(_, _, _)
correctCaseFrom(dir, corrected, rest) ==
    IF rest = <<>> THEN corrected
    ELSE LET match == findEntry(readDirSafe(dir), Head(rest))
         IN IF match = <<>> THEN NullParts
            ELSE IF Len(rest) > 1 /\ match[1].kind # "dir" THEN NullParts
            ELSE correctCaseFrom(Append(dir, match[1].name),
                                 Append(corrected, match[1].name),
                                 Tail(rest))

\* null is NullParts, which no corrected path equals (no entry name is empty).
correctCaseUnderPortfolio(parts) == correctCaseFrom(<<>>, <<>>, parts)

alphaRank(name) ==
    LET a == IF name = <<>> THEN "" ELSE lowerAtom(Head(name))
    IN CASE a = ".meta" -> 1
         [] a = "a" -> 2
         [] a = "b" -> 3
         [] a = "c" -> 4
         [] a = "n.txt" -> 5
         [] a = "sub" -> 6
         [] a = "x.jpg" -> 7
         [] a = "y.jpg" -> 8
         [] a = "z.bmp" -> 9
         [] OTHER -> 0

RECURSIVE insertAlpha(_, _)
insertAlpha(sorted, x) ==
    IF sorted = <<>> THEN <<x>>
    ELSE IF alphaRank(x) < alphaRank(Head(sorted)) THEN <<x>> \o sorted
    ELSE <<Head(sorted)>> \o insertAlpha(Tail(sorted), x)

\* Array.prototype.sort with localeCompare(sensitivity: "base"): stable.
RECURSIVE sortAlpha(_)
sortAlpha(s) ==
    IF s = <<>> THEN <<>>
    ELSE insertAlpha(sortAlpha(SubSeq(s, 1, Len(s) - 1)), Last(s))

\* Mutant: directories and files are visited in listing order.
RECURSIVE bfsQueueUnsorted(_, _)
bfsQueueUnsorted(q, targetFileName) ==
    IF q = <<>> THEN NullParts
    ELSE LET parts == Head(q)
             entries == readDirSafe(parts)
             dirs == SelectSeq(dirsOf(entries), LAMBDA d : ~ startsWithDot(d))
             files == filesOf(entries)
             exact == SelectSeq(files, LAMBDA f : f = targetFileName)
             ci == SelectSeq(files, LAMBDA f :
                                 toLowerCase(f) = toLowerCase(targetFileName))
         IN IF exact # <<>> THEN Append(parts, Head(exact))
            ELSE IF ci # <<>> THEN Append(parts, Head(ci))
            ELSE bfsQueueUnsorted(
                     Tail(q) \o [i \in DOMAIN dirs |-> Append(parts, dirs[i])],
                     targetFileName)

RECURSIVE bfsQueue(_, _)
bfsQueue(q, targetFileName) ==
    IF q = <<>> THEN NullParts
    ELSE LET parts == Head(q)
             entries == readDirSafe(parts)
             dirs == sortAlpha(SelectSeq(dirsOf(entries),
                                         LAMBDA d : ~ startsWithDot(d)))
             files == sortAlpha(filesOf(entries))
             exact == SelectSeq(files, LAMBDA f : f = targetFileName)
             ci == SelectSeq(files, LAMBDA f :
                                 toLowerCase(f) = toLowerCase(targetFileName))
         IN IF exact # <<>> THEN Append(parts, Head(exact))
            ELSE IF ci # <<>> THEN Append(parts, Head(ci))
            ELSE bfsQueue(Tail(q) \o [i \in DOMAIN dirs |-> Append(parts, dirs[i])],
                          targetFileName)

findFileUnderPortfolioBFS(startSlugParts, targetFileName) ==
    LET startCorrected == correctCaseUnderPortfolio(startSlugParts)
    IN IF startCorrected = NullParts THEN NullParts
       ELSE bfsQueue(<<startCorrected>>, targetFileName)

\* Rule 1 of resolveCover, candidateParts: the parts the line names, NullParts
\* where the code leaves candidateParts null.
coverCandidateParts(raw, relParts) ==
    LET normalized == trim(backslashesToSlashes(stripWeirdPrefix(raw)))
        cleaned == stripLeadingSlashes(normalized)
    IN IF startsWithPortfolioSlash(cleaned)
       THEN normalizeParts(Tail(split(cleaned, "/")))
       ELSE IF ~ startsWith(normalized, "/")
            THEN normalizeParts(relParts \o split(cleaned, "/"))
            ELSE NullParts

\* Mutant: the subtree is searched before the path is tried as written.
coverFromOverrideSearchFirst(absPath, relParts) ==
    LET raw == readFirstLineIfExists(absPath, ".cover")
        normalized == trim(backslashesToSlashes(stripWeirdPrefix(raw)))
        rooted == startsWithPortfolioSlash(stripLeadingSlashes(normalized))
        candidateParts ==
            IF coverCandidateParts(raw, relParts) = NullParts THEN <<>>
            ELSE coverCandidateParts(raw, relParts)
        last == Last(candidateParts)
        corrected == correctCaseUnderPortfolio(candidateParts)
        isLikelyRelative == ~ rooted /\ ~ startsWith(normalized, "/")
        found == findFileUnderPortfolioBFS(relParts, last)
    IN IF raw = EmptyStr \/ candidateParts = <<>> THEN Undefined
       ELSE IF ~ hasCoverImageExt(last) THEN Undefined
       ELSE IF isLikelyRelative /\ found # NullParts THEN slugToWebPath(found)
       ELSE IF corrected # NullParts THEN slugToWebPath(corrected)
       ELSE Undefined

\* Rule 1 of resolveCover: the web path the .cover line yields, or Undefined.
coverFromOverride(absPath, relParts) ==
    LET raw == readFirstLineIfExists(absPath, ".cover")
        normalized == trim(backslashesToSlashes(stripWeirdPrefix(raw)))
        cleaned == stripLeadingSlashes(normalized)
        rooted == startsWithPortfolioSlash(cleaned)
        candidateParts ==
            IF coverCandidateParts(raw, relParts) = NullParts THEN <<>>
            ELSE coverCandidateParts(raw, relParts)
        last == Last(candidateParts)
        corrected == correctCaseUnderPortfolio(candidateParts)
        isLikelyRelative == ~ rooted /\ ~ startsWith(normalized, "/")
        found == findFileUnderPortfolioBFS(relParts, last)
        firstImage == SelectSeq(filesOf(readDirSafe(corrected)), hasCoverImageExt)
    IN IF raw = EmptyStr \/ candidateParts = <<>> THEN Undefined
       ELSE IF hasCoverImageExt(last)
            THEN IF corrected # NullParts THEN slugToWebPath(corrected)
                 ELSE IF isLikelyRelative /\ found # NullParts
                      THEN slugToWebPath(found)
                      ELSE Undefined
            ELSE IF corrected # NullParts /\ firstImage # <<>>
                 THEN slugToWebPath(corrected) \o <<Head(firstImage)>>
                 ELSE Undefined

\* Mutant: a child's cover is preferred to its first image.
RECURSIVE coverFromChildrenCoverFirst(_)
coverFromChildrenCoverFirst(children) ==
    IF children = <<>> THEN Undefined
    ELSE LET c == Head(children)
         IN IF c.coverWebPath # Undefined THEN c.coverWebPath
            ELSE IF Len(c.images) > 0 /\ c.webPath # Undefined
            THEN Append(c.webPath, c.images[1])
            ELSE coverFromChildrenCoverFirst(Tail(children))

\* Mutant: only the first child is consulted.
coverFromFirstChildOnly(children) ==
    IF children = <<>> THEN Undefined
    ELSE LET c == Head(children)
         IN IF Len(c.images) > 0 /\ c.webPath # Undefined
            THEN Append(c.webPath, c.images[1])
            ELSE c.coverWebPath

\* Rule 3 of resolveCover: the first child that yields a result.
RECURSIVE coverFromChildren(_)
coverFromChildren(children) ==
    IF children = <<>> THEN Undefined
    ELSE LET c == Head(children)
         IN IF Len(c.images) > 0 /\ c.webPath # Undefined
            THEN Append(c.webPath, c.images[1])
            ELSE IF c.coverWebPath # Undefined THEN c.coverWebPath
            ELSE coverFromChildren(Tail(children))

resolveCover(absPath, relParts, imagesHere, webPath, children) ==
    LET override == coverFromOverride(absPath, relParts)
    IN IF override # Undefined THEN override
       ELSE IF Len(imagesHere) = 1 THEN Append(webPath, imagesHere[1])
       ELSE coverFromChildren(children)

-----------------------------------------------------------------------------
(* lib/dev-limit.ts *)

isDevRuntime ==
    IF env.NEXT_PUBLIC_DEV = "0" THEN FALSE
    ELSE env.NEXT_PUBLIC_DEV = "1" \/ env.NODE_ENV # "production"

\* 0 stands for undefined: no valid positive number in the environment value
\* nor in either .dev-limit file.
getDevGalleryLimit ==
    IF env.NEXT_PUBLIC_GALLERY_LIMIT > 0 THEN env.NEXT_PUBLIC_GALLERY_LIMIT
    ELSE IF env.devLimitFileCwd > 0 THEN env.devLimitFileCwd
    ELSE env.devLimitFilePortfolio

maybeLimitAlways(items) ==
    IF getDevGalleryLimit > 0
    THEN SubSeq(items, 1, IF getDevGalleryLimit < Len(items)
                          THEN getDevGalleryLimit ELSE Len(items))
    ELSE items

maybeLimit(items) ==
    IF ~ isDevRuntime THEN items
    ELSE IF getDevGalleryLimit > 0
         THEN SubSeq(items, 1, IF getDevGalleryLimit < Len(items)
                               THEN getDevGalleryLimit ELSE Len(items))
         ELSE items

-----------------------------------------------------------------------------
(* lib/gallery/build.ts *)

basename(relParts) == IF relParts = <<>> THEN Str("Portfolio") ELSE Last(relParts)

\* lastIndexOf("/") + slice: the last segment of the web path.
filenameFromWebPath(p) == IF p = Undefined THEN Undefined ELSE Last(p)

\* Mutant: a non-empty .folders wins over .order.
orderedDirsFallbackFirst(absPath) ==
    LET normalDirs == SelectSeq(dirsOf(readDirSafe(absPath)),
                                LAMBDA d : ~ startsWithDot(d))
        fallback == readFolders(absPath)
        desired == IF Len(fallback) > 0 THEN fallback ELSE readOrder(absPath)
    IN applyOrder(normalDirs, desired)

\* buildNode, "Order CHILD FOLDERS": the non-dot subdirectories in display order.
orderedDirs(absPath) ==
    LET normalDirs == SelectSeq(dirsOf(readDirSafe(absPath)),
                                LAMBDA d : ~ startsWithDot(d))
        order == readOrder(absPath)
        desired == IF Len(order) > 0 THEN order ELSE readFolders(absPath)
    IN applyOrder(normalDirs, desired)

\* buildNode, "Order IMAGES": the media files of the directory in display order.
orderedImages(absPath) ==
    LET imagesHere == SelectSeq(filesOf(readDirSafe(absPath)), isImageFile)
        order == readOrder(absPath)
        desired == IF Len(order) > 0 THEN order ELSE readImages(absPath)
    IN applyOrder(imagesHere, desired)

\* buildNode, "Leaf logic": the images field of the node.
nodeImages(isLeaf, imagesHere) ==
    IF ~ isLeaf THEN Undefined
    ELSE IF Len(imagesHere) = 1 THEN <<imagesHere[1]>>
    ELSE imagesHere

\* Mutant: a leaf gets no cover of its own beyond the parent rules.
nodeCoverParentRulesOnly(isLeaf, imagesHere, webPath, coverFromParentRules) ==
    coverFromParentRules

\* buildNode, "Leaf logic": the coverWebPath field of the node.
nodeCover(isLeaf, imagesHere, webPath, coverFromParentRules) ==
    IF isLeaf /\ Len(imagesHere) >= 1 /\ coverFromParentRules = Undefined
    THEN Append(webPath, imagesHere[1])
    ELSE coverFromParentRules

RECURSIVE buildNode(_)

\* buildNode, "Recurse into children": the child nodes before the dev cap.
builtChildren(relParts) ==
    LET normalDirs == orderedDirs(relParts)
    IN [i \in DOMAIN normalDirs |-> buildNode(Append(relParts, normalDirs[i]))]

buildNode(relParts) ==
    LET dirName == basename(relParts)
        webPath == <<Str("Portfolio")>> \o relParts
        imagesHere == orderedImages(relParts)
        children == builtChildren(relParts)
        coverFromParentRules ==
            resolveCover(relParts, relParts, imagesHere, webPath, children)
        isLeaf == Len(children) = 0
    IN [name |-> dirName,
        slug |-> slugify(dirName),
        fsPath |-> relParts,
        webPath |-> webPath,
        coverWebPath |-> nodeCover(isLeaf, imagesHere, webPath, coverFromParentRules),
        images |-> nodeImages(isLeaf, imagesHere),
        children |-> IF Len(children) > 0
                     THEN IF Len(relParts) = 0 THEN maybeLimit(children)
                          ELSE children
                     ELSE Undefined]

normalizedImages(node, children) ==
    IF children = Undefined /\ node.images = <<>>
       /\ filenameFromWebPath(node.coverWebPath) # Undefined
    THEN <<filenameFromWebPath(node.coverWebPath)>>
    ELSE node.images

\* A parsed manifest node always carries name, slug, fsPath and webPath (the
\* generator writes them), so the ?? defaults are never taken.
RECURSIVE normalizeManifest(_)
normalizeManifest(node) ==
    LET children == [i \in DOMAIN node.children |->
                         normalizeManifest(node.children[i])]
    IN [name |-> node.name,
        slug |-> node.slug,
        fsPath |-> node.fsPath,
        webPath |-> node.webPath,
        coverWebPath |-> node.coverWebPath,
        images |-> normalizedImages(node, children),
        children |-> children]

decodeAtom(a) ==
    CASE a = "%20" -> " "
      [] a = "%23" -> "#"
      [] a = "%2F" -> "/"
      [] a = "%25" -> "%"
      [] OTHER -> a

\* A "%" that starts no escape sequence: decodeURIComponent throws URIError.
isMalformedURI(s) == \E i \in DOMAIN s : s[i] = "%"

decodeURIComponent(s) == [i \in DOMAIN s |-> decodeAtom(s[i])]

\* getGalleryIndex, manifest branch.
indexFromManifest ==
    LET root == normalizeManifest(manifest.node)
        portfolio == SelectSeq(root.children, LAMBDA n :
                         \/ decodeURIComponent(n.slug) = Str("Portfolio")
                         \/ n.name = Str("Portfolio"))
    IN IF portfolio # <<>> THEN Head(portfolio) ELSE root

\* What an async function gives its caller: a value, null, or a rejection.
Found(n) == [tag |-> "node", node |-> n]
Null == [tag |-> "null"]
Thrown == [tag |-> "throw"]

\* await: the promise settles once, and what follows works on the settled
\* value.
Await(promise, Then(_)) ==
    CHOOSE v \in {Then(settled) : settled \in {promise}} : TRUE

getGalleryIndexFallback(useManifest) ==
    IF useManifest /\ manifest.ex /\ manifest.parses
    THEN Found(indexFromManifest)
    ELSE Found(buildNode(<<>>))

\* getGalleryIndex: JSON.parse throws on a manifest that is not JSON.
getGalleryIndex(useManifest) ==
    IF useManifest /\ manifest.ex
    THEN IF manifest.parses THEN Found(indexFromManifest) ELSE Thrown
    ELSE Found(buildNode(<<>>))

\* The loop with the two comparisons crossed: the slug against the decoded
\* segment, the name against the raw one.
RECURSIVE descendCrossed(_, _)
descendCrossed(node, slugParts) ==
    IF slugParts = <<>> THEN Found(node)
    ELSE IF isMalformedURI(Head(slugParts)) THEN Thrown
    ELSE LET part == Head(slugParts)
             decoded == decodeURIComponent(part)
             next == SelectSeq(node.children,
                               LAMBDA c : c.slug = decoded \/ c.name = part)
         IN IF next = <<>> THEN Null
            ELSE descendCrossed(Head(next), Tail(slugParts))

\* getNodeBySlug, the loop over the segments.
RECURSIVE descend(_, _)
descend(node, slugParts) ==
    IF slugParts = <<>> THEN Found(node)
    ELSE IF isMalformedURI(Head(slugParts)) THEN Thrown
    ELSE LET part == Head(slugParts)
             decoded == decodeURIComponent(part)
             next == SelectSeq(node.children,
                               LAMBDA c : c.slug = part \/ c.name = decoded)
         IN IF next = <<>> THEN Null
            ELSE descend(Head(next), Tail(slugParts))

getNodeBySlug(useManifest, slugParts) ==
    Await(getGalleryIndex(useManifest), LAMBDA root :
        IF root.tag = "throw" THEN Thrown ELSE descend(root.node, slugParts))

-----------------------------------------------------------------------------
(* lib/gallery/aliases.ts, app/portfolio/page.tsx, app/portfolio/[...slug]/page.tsx *)

\* readLinesIfExists: the lines of the file, none when it cannot be read.
readLinesIfExists(dirAbs, filename) ==
    IF canRead(ctl[dirAbs][filename]) THEN ctl[dirAbs][filename].lines ELSE <<>>

webPathsOf(children) == {children[i].webPath : i \in DOMAIN children}

\* GalleryPage, one alias tile: what the grid shows and where it links.
aliasTile(target, parts) ==
    [name |-> target.name,
     slug |-> Append(target.slug, "__alias"),
     webPath |-> target.webPath,
     linkHref |-> <<Str("portfolio")>> \o parts,
     isAlias |-> TRUE]

\* GalleryPage, "Build alias tiles": the loop over the lines inside its
\* try/catch; a rejection of getNodeBySlug ends the loop with the tiles so far.
RECURSIVE aliasTiles(_, _, _, _, _)
aliasTiles(useManifest, lines, slugParts, existingWeb, tiles) ==
    IF lines = <<>> THEN tiles
    ELSE Await(resolveLineToSlugParts(Head(lines), slugParts), LAMBDA parts :
         IF parts = NullParts
         THEN aliasTiles(useManifest, Tail(lines), slugParts, existingWeb, tiles)
         ELSE Await(getNodeBySlug(useManifest, parts), LAMBDA target :
              IF target.tag = "throw" THEN tiles
              ELSE IF target.tag = "null" \/ target.node.webPath \in existingWeb
              THEN aliasTiles(useManifest, Tail(lines), slugParts, existingWeb,
                              tiles)
              ELSE aliasTiles(useManifest, Tail(lines), slugParts, existingWeb,
                              Append(tiles, aliasTile(target.node, parts)))))

\* GalleryPage, the tile of a real child.
childTile(child, slugParts) ==
    [name |-> child.name,
     slug |-> child.slug,
     webPath |-> child.webPath,
     linkHref |-> <<Str("portfolio")>> \o slugParts \o <<child.slug>>,
     isAlias |-> FALSE]

\* GalleryPage: the tiles handed to GalleryGrid, merged and numbered by
\* sortIndex, which is the order the grid shows them in.
gridNodesOf(node, useManifest, slugParts) ==
    LET childrenWithMetadata ==
            [i \in DOMAIN node.children |-> childTile(node.children[i], slugParts)]
    IN childrenWithMetadata
       \o aliasTiles(useManifest, readLinesIfExists(node.fsPath, ".aliases"),
                     slugParts, webPathsOf(node.children), <<>>)

GalleryPage(useManifest, slugParts) ==
    Await(getNodeBySlug(useManifest, slugParts), LAMBDA found :
        IF found.tag = "throw" THEN [status |-> "error"]
        ELSE IF found.tag = "null" THEN [status |-> "notFound"]
        ELSE [status |-> "ok",
              gridNodes |-> gridNodesOf(found.node, useManifest, slugParts)])

\* addAliasCountToChild, the loop over the lines: nothing catches a rejection
\* of getNodeBySlug.
RECURSIVE aliasCount(_, _, _, _, _)
aliasCount(useManifest, lines, childSlugParts, realChildWebs, count) ==
    IF lines = <<>> THEN [tag |-> "count", count |-> count]
    ELSE Await(resolveLineToSlugParts(Head(lines), childSlugParts), LAMBDA parts :
         IF parts = NullParts
         THEN aliasCount(useManifest, Tail(lines), childSlugParts, realChildWebs,
                         count)
         ELSE Await(getNodeBySlug(useManifest, parts), LAMBDA target :
              IF target.tag = "throw" THEN Thrown
              ELSE IF target.tag = "null" \/ target.node.webPath \in realChildWebs
              THEN aliasCount(useManifest, Tail(lines), childSlugParts,
                              realChildWebs, count)
              ELSE aliasCount(useManifest, Tail(lines), childSlugParts,
                              realChildWebs, count + 1)))

\* addAliasCountToChild: the aliasChildrenCount the grid reads off the child
\* (a child without .aliases lines carries none, which the grid reads as 0).
addAliasCountToChild(useManifest, child) ==
    LET lines == readLinesIfExists(child.fsPath, ".aliases")
    IN IF lines = <<>> THEN [tag |-> "count", count |-> 0]
       ELSE aliasCount(useManifest, lines, Tail(child.webPath),
                       webPathsOf(child.children), 0)

\* addAliasCountsToChildren: Promise.all over the children.
addAliasCountsToChildren(useManifest, children) ==
    [i \in DOMAIN children |-> addAliasCountToChild(useManifest, children[i])]

\* TopGalleryPage with GalleryGrid's counts, once the children's counts have
\* settled: Promise.all rejects when one child does.
topGridNodes(children, counts) ==
    IF \E i \in DOMAIN counts : counts[i].tag = "throw"
    THEN [status |-> "error"]
    ELSE [status |-> "ok",
          gridNodes |->
              [i \in DOMAIN children |->
                  [name |-> children[i].name,
                   slug |-> children[i].slug,
                   webPath |-> children[i].webPath,
                   linkHref |-> <<Str("portfolio"), children[i].slug>>,
                   realChildrenCount |-> Len(children[i].children),
                   aliasChildrenCount |-> counts[i].count]]]

TopGalleryPage(useManifest) ==
    Await(getNodeBySlug(useManifest, <<>>), LAMBDA found :
        IF found.tag = "throw" THEN [status |-> "error"]
        ELSE Await(addAliasCountsToChildren(useManifest, found.node.children),
                   LAMBDA counts : topGridNodes(found.node.children, counts)))

-----------------------------------------------------------------------------
(* scripts/generate-manifest.mjs *)

IMAGE_EXT_gen ==
    {Str(".jpg"), Str(".jpeg"), Str(".png"), Str(".webp"), Str(".gif"),
     Str(".avif")}

DEFAULT_IGNORE_DIRS ==
    {Str("thumbnails"), Str("thumbnail"), Str("thumbs"), Str("thumb"),
     Str("proofs"), Str("proof")}

genIsImageFile(name) == toLowerCase(extname(name)) \in IMAGE_EXT_gen

\* s.replace(/#.*/, ''): the line up to its first "#".
RECURSIVE beforeHash(_)
beforeHash(s) ==
    IF s = <<>> \/ Head(s) = "#" THEN <<>>
    ELSE <<Head(s)>> \o beforeHash(Tail(s))

readLinesIfFile(absDir, file) ==
    LET f == ctl[absDir][file]
    IN IF ~ f.ex THEN <<>>
       ELSE SelectSeq([i \in DOMAIN f.lines |-> trim(beforeHash(f.lines[i]))],
                      LAMBDA l : l # EmptyStr)

genReadOrder(absDir) == readLinesIfFile(absDir, ".order")

readIgnore(absDir) ==
    {toLowerCase(l) : l \in Range(readLinesIfFile(absDir, ".ignore"))}

isHiddenOrIgnored(name, ignoreSet) ==
    \/ name = EmptyStr
    \/ startsWithDot(name)
    \/ startsWith(name, "@")
    \/ toLowerCase(name) \in ignoreSet
    \/ toLowerCase(name) \in DEFAULT_IGNORE_DIRS

\* ciAlpha: localeCompare(sensitivity: "base", numeric: true); a stable sort.
sortCiAlpha(s) == sortAlpha(s)

\* pos.get(n): desired.forEach overwrites, so the index of the last occurrence.
posIn(desired, n) ==
    CHOOSE i \in DOMAIN desired :
        desired[i] = n /\ \A j \in (i + 1)..Len(desired) : desired[j] # n

RECURSIVE insertByPos(_, _, _)
insertByPos(sorted, x, desired) ==
    IF sorted = <<>> THEN <<x>>
    ELSE IF posIn(desired, x) < posIn(desired, Head(sorted)) THEN <<x>> \o sorted
    ELSE <<Head(sorted)>> \o insertByPos(Tail(sorted), x, desired)

RECURSIVE sortByPos(_, _)
sortByPos(s, desired) ==
    IF s = <<>> THEN <<>>
    ELSE insertByPos(sortByPos(SubSeq(s, 1, Len(s) - 1), desired), Last(s), desired)

applyOrderList(items, desired) ==
    IF Len(desired) = 0 THEN items
    ELSE LET inList == sortByPos(SelectSeq(items, LAMBDA n : Includes(desired, n)),
                                 desired)
             rest == SelectSeq(items, LAMBDA n : ~ Includes(desired, n))
         IN inList \o rest

genResolveLineToSlugParts(rawLine, currentSlugParts) ==
    LET line0 == trim(stripWeirdPrefix(rawLine))
        line == backslashesToSlashes(line0)
        cleaned == stripLeadingSlashes(line)
        rel == split(cleaned, "/")
    IN IF line0 = EmptyStr \/ startsWith(line0, "#") THEN NullParts
       ELSE IF startsWithPortfolioSlash(cleaned)
            THEN normalizeParts(Tail(split(cleaned, "/")))
       ELSE IF startsWith(line, "/") THEN NullParts
       ELSE normalizeParts(currentSlugParts \o
                IF toLowerCase(Head(rel)) = Str("portfolio") THEN Tail(rel) ELSE rel)

\* The generator reads the first meaningful .cover line as readFirstLineIfExists
\* does, and its correctCaseUnderPortfolio and findFileUnderPortfolioBFS are
\* line-for-line those of cover.ts.
genReadCoverOverrideWebPath(absDir, slugParts) ==
    LET line == readFirstLineIfExists(absDir, ".cover")
        parts == genResolveLineToSlugParts(line, slugParts)
        last == Last(parts)
        corrected == correctCaseUnderPortfolio(parts)
        isLikelyRelative ==
            /\ ~ startsWithPortfolioSlash(
                     stripLeadingSlashes(backslashesToSlashes(line)))
            /\ ~ startsWith(line, "/")
        found == findFileUnderPortfolioBFS(slugParts, last)
    IN IF line = EmptyStr THEN Undefined
       ELSE IF parts = NullParts \/ parts = <<>> THEN Undefined
       ELSE IF ~ genIsImageFile(last) THEN Undefined
       ELSE IF corrected # NullParts THEN slugToWebPath(corrected)
       ELSE IF isLikelyRelative /\ found # NullParts THEN slugToWebPath(found)
       ELSE Undefined

fallbackCoverFromImages(webPath, images) ==
    IF images = <<>> THEN Undefined ELSE Append(webPath, images[1])

\* The generator passes no existingCoverWebPath.
genEffectiveCoverWebPath(dirAbs, slugParts, webPath, images) ==
    LET override == genReadCoverOverrideWebPath(dirAbs, slugParts)
    IN IF override # Undefined THEN override
       ELSE fallbackCoverFromImages(webPath, images)

genCombinedIgnore(absPath, inheritedIgnore) ==
    inheritedIgnore \cup readIgnore(absPath) \cup DEFAULT_IGNORE_DIRS

genImages(absPath, combinedIgnore) ==
    LET fileNames == SelectSeq(filesOf(readDirSafe(absPath)),
                               LAMBDA n : ~ isHiddenOrIgnored(n, combinedIgnore))
        order == genReadOrder(absPath)
        images == SelectSeq(fileNames, genIsImageFile)
    IN IF Len(order) > 0 THEN applyOrderList(images, order) ELSE sortCiAlpha(images)

genFolders(absPath, combinedIgnore) ==
    LET dirNames == SelectSeq(dirsOf(readDirSafe(absPath)),
                              LAMBDA n : ~ isHiddenOrIgnored(n, combinedIgnore))
        order == genReadOrder(absPath)
    IN IF Len(order) > 0 THEN applyOrderList(dirNames, order)
       ELSE sortCiAlpha(dirNames)

\* "Hide cover file from images when there are children".
genFinalImages(images, hasChildren, cover, webPath) ==
    IF /\ hasChildren
       /\ cover # Undefined
       /\ Len(cover) > Len(webPath)
       /\ SubSeq(cover, 1, Len(webPath)) = webPath
    THEN SelectSeq(images, LAMBDA img :
             <<img>> # SubSeq(cover, Len(webPath) + 1, Len(cover)))
    ELSE images

RECURSIVE genBuildNode(_, _)
genBuildNode(relParts, inheritedIgnore) ==
    LET dirName == basename(relParts)
        webPath == <<Str("Portfolio")>> \o relParts
        combinedIgnore == genCombinedIgnore(relParts, inheritedIgnore)
        images == genImages(relParts, combinedIgnore)
        folders == genFolders(relParts, combinedIgnore)
        children == [i \in DOMAIN folders |->
                         genBuildNode(Append(relParts, folders[i]), combinedIgnore)]
        cover == genEffectiveCoverWebPath(relParts, relParts, webPath, images)
    IN [name |-> dirName,
        slug |-> dirName,
        fsPath |-> relParts,
        webPath |-> webPath,
        coverWebPath |-> cover,
        images |-> genFinalImages(images, Len(children) > 0, cover, webPath),
        children |-> children]

\* The convenience files buildNode leaves in the directories it visits:
\* a set of [dir, folders, images], each file as it is after the run.
RECURSIVE genListingFiles(_, _)
genListingFiles(relParts, inheritedIgnore) ==
    LET combinedIgnore == genCombinedIgnore(relParts, inheritedIgnore)
        images == genImages(relParts, combinedIgnore)
        folders == genFolders(relParts, combinedIgnore)
        isRoot == Len(relParts) = 0
    IN {[dir |-> relParts,
         folders |-> IF Len(folders) > 0
                     THEN File(Append(folders, EmptyStr)) ELSE NoFile,
         images |-> IF isRoot THEN NoFile
                    ELSE IF Len(images) > 0
                         THEN File(Append(images, EmptyStr)) ELSE NoFile]}
       \cup UNION {genListingFiles(Append(relParts, folders[i]), combinedIgnore) :
                       i \in DOMAIN folders}

-----------------------------------------------------------------------------
(* scripts/gen-order-files.mjs *)

\* names.join("\n") + "\n", as the lines the text splits into.
joinedLines(names) ==
    IF names = <<>> THEN File(<<EmptyStr, EmptyStr>>) ELSE File(Append(names, EmptyStr))

\* walk: the files it hands to writeFileIfChanged, as a set of
\* [dir, file, content].
RECURSIVE walk(_)
walk(relParts) ==
    LET entries == SelectSeq(readDirSafe(relParts),
                             LAMBDA e : ~ startsWithDot(e.name))
        imageFiles == sortAlpha(SelectSeq(filesOf(entries), isImageFile))
        nonDotSubdirs == sortAlpha(dirsOf(entries))
    IN (IF Len(imageFiles) > 0 /\ Len(nonDotSubdirs) = 0
        THEN {[dir |-> relParts, file |-> ".images",
               content |-> joinedLines(imageFiles)]}
        ELSE {})
       \cup
       (IF Len(nonDotSubdirs) > 0
        THEN {[dir |-> relParts, file |-> ".folders",
               content |-> joinedLines(nonDotSubdirs)]}
             \cup UNION {walk(Append(relParts, nonDotSubdirs[i])) :
                             i \in DOMAIN nonDotSubdirs}
        ELSE {})

\* writeFileIfChanged: an existing file is left alone when it holds the
\* content already, or when --no-overwrite was given.
writesFileIfChanged(w, noOverwrite) ==
    \/ ~ ctl[w.dir][w.file].ex
    \/ (ctl[w.dir][w.file] # w.content /\ ~ noOverwrite)

-----------------------------------------------------------------------------
(* scripts/update-folders.mjs *)

listTopLevelDirs ==
    sortAlpha(SelectSeq(dirsOf(readDirSafe(<<>>)), LAMBDA d : ~ startsWithDot(d)))

-----------------------------------------------------------------------------
(* The collections and environments the builds are run on *)

DirE(a) == [name |-> Str(a), kind |-> "dir"]

FileE(a) == [name |-> Str(a), kind |-> "file"]

CtlNames == {".order", ".folders", ".images", ".cover", ".ignore", ".aliases"}

NoCtl == [f \in CtlNames |-> NoFile]

FilesOpts ==
    << <<>>,
       <<FileE("x.jpg")>>,
       <<FileE("y.jpg"), FileE("x.jpg")>> >>

OrderOpts ==
    << NoFile,
       File(<< <<"#", "c">>, <<>>, <<"/", "/", "c">>, <<" ">> >>),
       File(<< Str("A"), <<"BOM", "y.jpg", " ">> >>),
       File(<< Str("x.jpg"), Str("B"), Str("x.jpg"), Str("B") >>) >>

FallbackOpts ==
    << [folders |-> NoFile, images |-> NoFile],
       [folders |-> File(<<Str("B"), Str("A"), EmptyStr>>),
        images |-> File(<<Str("x.jpg"), Str("y.jpg"), EmptyStr>>)] >>

CoverOpts ==
    << NoFile,
       File(<< Str("x.jpg") >>),
       File(<< <<"..", "/", "..", "/", "B", "/", "x.jpg">> >>) >>

EnvOpts ==
    << [NEXT_PUBLIC_DEV |-> "unset", NODE_ENV |-> "production",
        NEXT_PUBLIC_GALLERY_LIMIT |-> 0,
        devLimitFileCwd |-> 0, devLimitFilePortfolio |-> 0],
       [NEXT_PUBLIC_DEV |-> "1", NODE_ENV |-> "development",
        NEXT_PUBLIC_GALLERY_LIMIT |-> 1,
        devLimitFileCwd |-> 0, devLimitFilePortfolio |-> 0] >>

Profiles ==
    [files : DOMAIN FilesOpts, order : DOMAIN OrderOpts,
     fb : DOMAIN FallbackOpts, cover : DOMAIN CoverOpts]

Flag(b) == IF b THEN 1 ELSE 0

features(p) ==
    Flag(p.files # 1) + Flag(p.order # 1) + Flag(p.fb # 1) + Flag(p.cover # 1)

ProfilesWithin(k) == {p \in Profiles : features(p) <= k}

ctlOf(p) ==
    [f \in CtlNames |->
        CASE f = ".order" -> OrderOpts[p.order]
          [] f = ".folders" -> FallbackOpts[p.fb].folders
          [] f = ".images" -> FallbackOpts[p.fb].images
          [] f = ".cover" -> CoverOpts[p.cover]
          [] OTHER -> NoFile]

PathA == <<Str("A")>>
PathB == <<Str("B")>>
PathAB == <<Str("A"), Str("B")>>
PathMeta == <<Str(".meta")>>

\* shape "flat": Portfolio/{.meta, A, B}; shape "chain": Portfolio/A/B.
listingOf(shape, r, a, b) ==
    IF shape = "flat"
    THEN (<<>> :> (<<DirE(".meta"), DirE("A"), DirE("B")>> \o FilesOpts[r.files]))
         @@ (PathMeta :> <<>>)
         @@ (PathA :> FilesOpts[a.files])
         @@ (PathB :> FilesOpts[b.files])
    ELSE (<<>> :> (<<DirE("A")>> \o FilesOpts[r.files]))
         @@ (PathA :> (<<DirE("B")>> \o FilesOpts[a.files]))
         @@ (PathAB :> FilesOpts[b.files])

controlsOf(shape, r, a, b) ==
    IF shape = "flat"
    THEN (<<>> :> ctlOf(r)) @@ (PathMeta :> NoCtl)
         @@ (PathA :> ctlOf(a)) @@ (PathB :> ctlOf(b))
    ELSE (<<>> :> ctlOf(r)) @@ (PathA :> ctlOf(a)) @@ (PathAB :> ctlOf(b))

NoManifest == [ex |-> FALSE, parses |-> FALSE, node |-> <<>>]

NoCall == [op |-> "none"]

Init ==
    \E shape \in {"flat", "chain"}, e \in DOMAIN EnvOpts :
      \E r \in ProfilesWithin(MaxFeatures - Flag(e # 1)) :
        \E a \in ProfilesWithin(MaxFeatures - Flag(e # 1) - features(r)) :
          \E b \in ProfilesWithin(MaxFeatures - Flag(e # 1) - features(r)
                                  - features(a)) :
            /\ ls = listingOf(shape, r, a, b)
            /\ ctl = controlsOf(shape, r, a, b)
            /\ env = EnvOpts[e]
            /\ manifest = NoManifest
            /\ index = <<>>
            /\ source = "none"
            /\ call = NoCall

-----------------------------------------------------------------------------
(* Operations *)

\* getGalleryIndex(): GALLERY_USE_MANIFEST is read from the environment at
\* each call.  public/Portfolio exists in every collection drawn here.
GetGalleryIndex ==
    \E useManifest \in BOOLEAN :
        LET r == getGalleryIndex(useManifest)
        IN /\ IF r.tag = "throw"
              THEN index' = <<>> /\ source' = "error"
              ELSE /\ index' = r.node
                   /\ source' = IF useManifest /\ manifest.ex
                                THEN "manifest" ELSE "live"
           /\ call' = [op |-> "getGalleryIndex", useManifest |-> useManifest]
           /\ UNCHANGED <<ls, ctl, manifest, env>>

\* writeIfChanged writes unless the file already holds the content.
writesFile(dir, file, content) == content.ex /\ ctl[dir][file] # content

\* removeIfExists unlinks the file if there is one.
removesFile(dir, file, content) == ~ content.ex /\ ctl[dir][file].ex

\* scripts/generate-manifest.mjs, top level: buildNode(ROOT, []) writes the
\* convenience files on its way and the manifest at the end.  A tree returned
\* before the run no longer belongs to the collection, so it is dropped.  The
\* call records which files the run wrote and which it removed.
RunGenerator ==
    LET listed == genListingFiles(<<>>, {})
        visited == {w.dir : w \in listed}
        at(d) == CHOOSE w \in listed : w.dir = d
        contentOf(d, f) == IF f = ".folders" THEN at(d).folders ELSE at(d).images
        listings == visited \X {".folders", ".images"}
    IN /\ ctl' = [d \in DOMAIN ctl |->
                    IF d \in visited
                    THEN [ctl[d] EXCEPT ![".folders"] = at(d).folders,
                                        ![".images"] = at(d).images]
                    ELSE ctl[d]]
       /\ manifest' = [ex |-> TRUE, parses |-> TRUE, node |-> genBuildNode(<<>>, {})]
       /\ index' = <<>>
       /\ source' = "none"
       /\ call' = [op |-> "generate-manifest",
                   written |-> {x \in listings :
                                   writesFile(x[1], x[2], contentOf(x[1], x[2]))},
                   removed |-> {x \in listings :
                                   removesFile(x[1], x[2], contentOf(x[1], x[2]))},
                   manifestWritten |-> TRUE]
       /\ UNCHANGED <<ls, env>>

Next == GetGalleryIndex \/ RunGenerator

Spec == Init /\ [][Next]_vars

-----------------------------------------------------------------------------
(* applyOrder called directly on arbitrary lists *)

OrderNames == {Str("x.jpg"), Str("y.jpg"), Str("A")}

SeqsUpTo(n, S) == UNION {[1..k -> S] : k \in 0..n}

InitOrder ==
    /\ ls = (<<>> :> <<>>)
    /\ ctl = (<<>> :> NoCtl)
    /\ env = EnvOpts[1]
    /\ manifest = NoManifest
    /\ index = <<>>
    /\ source = "none"
    /\ \E items \in SeqsUpTo(MaxLen, OrderNames),
          desired \in SeqsUpTo(MaxLen, OrderNames) :
           call = [op |-> "applyOrder", done |-> FALSE,
                   items |-> items, desired |-> desired, result |-> <<>>]

CallApplyOrder ==
    /\ call.op = "applyOrder"
    /\ ~ call.done
    /\ call' = [call EXCEPT !.done = TRUE,
                            !.result = applyOrder(call.items, call.desired)]
    /\ UNCHANGED <<ls, ctl, manifest, env, index, source>>

NextOrder == CallApplyOrder

SpecOrder == InitOrder /\ [][NextOrder]_vars

-----------------------------------------------------------------------------
(* Live scans of collections that exercise the .cover rules *)

\* How many directories of a collection hold media or a .cover file.
MaxCoverFeatures == 3

CoverFilesOpts ==
    << <<>>,
       <<FileE("x.jpg")>>,
       <<FileE("X.JPG"), FileE("x.jpg")>> >>

CoverLineOpts ==
    << NoFile,
       File(<< <<>>, <<"ZWSP", " ">>, <<" ", "#", "x.jpg">>, <<"#", "c">> >>),
       File(<< <<"/", "/", "Portfolio", "/", "B", "/", "x.jpg">> >>),
       File(<< Str("x.jpg") >>),
       File(<< <<"BOM", "b", "\\", "X.JPG", " ">> >>),
       File(<< <<"sub", "/", "x.jpg">> >>),
       File(<< <<"Portfolio", "/", "A", "/", "x.jpg">> >>),
       File(<< Str("A") >>) >>

CoverProfiles == [files : DOMAIN CoverFilesOpts, cover : DOMAIN CoverLineOpts]

coverFeatures(p) == Flag(p.files # 1) + Flag(p.cover # 1)

CoverProfilesWithin(k) == {p \in CoverProfiles : coverFeatures(p) <= k}

coverCtlOf(p) == [NoCtl EXCEPT ![".cover"] = CoverLineOpts[p.cover]]

PathABC == <<Str("A"), Str("B"), Str("C")>>
PathAImg == <<Str("A"), Str("x.jpg")>>

\* shape "flat": Portfolio/{.meta, B, A}, listed in that order;
\* shape "deep": Portfolio/A/B/C;
\* shape "imgdir": Portfolio/A/x.jpg, where x.jpg is a directory.
coverListingOf(shape, r, a, b, c) ==
    CASE shape = "flat" ->
           (<<>> :> (<<DirE(".meta"), DirE("B"), DirE("A")>> \o CoverFilesOpts[r.files]))
           @@ (PathMeta :> CoverFilesOpts[c.files])
           @@ (PathA :> CoverFilesOpts[a.files])
           @@ (PathB :> CoverFilesOpts[b.files])
      [] shape = "deep" ->
           (<<>> :> (<<DirE("A")>> \o CoverFilesOpts[r.files]))
           @@ (PathA :> (<<DirE("B")>> \o CoverFilesOpts[a.files]))
           @@ (PathAB :> (<<DirE("C")>> \o CoverFilesOpts[b.files]))
           @@ (PathABC :> CoverFilesOpts[c.files])
      [] OTHER ->
           (<<>> :> (<<DirE("A")>> \o CoverFilesOpts[r.files]))
           @@ (PathA :> (<<DirE("x.jpg")>> \o CoverFilesOpts[a.files]))
           @@ (PathAImg :> CoverFilesOpts[b.files])

coverControlsOf(shape, r, a, b, c) ==
    CASE shape = "flat" ->
           (<<>> :> coverCtlOf(r)) @@ (PathMeta :> NoCtl)
           @@ (PathA :> coverCtlOf(a)) @@ (PathB :> coverCtlOf(b))
      [] shape = "deep" ->
           (<<>> :> coverCtlOf(r)) @@ (PathA :> coverCtlOf(a))
           @@ (PathAB :> coverCtlOf(b)) @@ (PathABC :> coverCtlOf(c))
      [] OTHER ->
           (<<>> :> coverCtlOf(r)) @@ (PathA :> coverCtlOf(a))
           @@ (PathAImg :> coverCtlOf(b))

InitCover ==
    \E shape \in {"flat", "deep", "imgdir"} :
      \E r \in CoverProfilesWithin(MaxCoverFeatures) :
        \E a \in CoverProfilesWithin(MaxCoverFeatures - coverFeatures(r)) :
          \E b \in CoverProfilesWithin(MaxCoverFeatures - coverFeatures(r)
                                       - coverFeatures(a)) :
            \E c \in CoverProfilesWithin(
                         IF shape = "imgdir" THEN 0
                         ELSE MaxCoverFeatures - coverFeatures(r)
                              - coverFeatures(a) - coverFeatures(b)) :
              /\ (shape = "flat" => c.cover = 1)
              /\ ls = coverListingOf(shape, r, a, b, c)
              /\ ctl = coverControlsOf(shape, r, a, b, c)
              /\ env = EnvOpts[1]
              /\ manifest = NoManifest
              /\ index = <<>>
              /\ source = "none"
              /\ call = NoCall

NextCover == GetGalleryIndex

SpecCover == InitCover /\ [][NextCover]_vars

-----------------------------------------------------------------------------
(* The portfolio pages rendered over collections with .aliases files *)

\* How many lines the .aliases file of Portfolio/A has at most.
MaxAliasLines == 2

AliasLinePool ==
    { Str("B"),
      <<"..", "/", "B">>,
      <<"..", "/", "missing">>,
      <<"#", "c">>,
      <<"/", "B">>,
      <<"/", "Portfolio", "/", "B">>,
      <<"..", "/", "100", "%">> }

PageSlugs == {<<>>, PathA, PathB, PathAB, <<Str("missing")>>}

\* Portfolio/{A/{B/x.jpg}, B/x.jpg}, with the .aliases file in Portfolio/A.
InitPages ==
    \E aliases \in SeqsUpTo(MaxAliasLines, AliasLinePool), e \in DOMAIN EnvOpts :
        /\ ls = (<<>> :> <<DirE("A"), DirE("B")>>)
                @@ (PathA :> <<DirE("B")>>)
                @@ (PathAB :> <<FileE("x.jpg")>>)
                @@ (PathB :> <<FileE("x.jpg")>>)
        /\ ctl = (<<>> :> NoCtl)
                 @@ (PathA :> [NoCtl EXCEPT ![".aliases"] =
                                  IF aliases = <<>> THEN NoFile ELSE File(aliases)])
                 @@ (PathAB :> NoCtl)
                 @@ (PathB :> NoCtl)
        /\ env = EnvOpts[e]
        /\ manifest = NoManifest
        /\ index = <<>>
        /\ source = "none"
        /\ call = NoCall

\* A request for /portfolio/<slug>; GALLERY_USE_MANIFEST is what the process
\* was started with.
RenderGalleryPage ==
    \E useManifest \in BOOLEAN, slugParts \in PageSlugs :
        /\ call' = [op |-> "GalleryPage", useManifest |-> useManifest,
                    slug |-> slugParts,
                    page |-> GalleryPage(useManifest, slugParts)]
        /\ UNCHANGED <<ls, ctl, manifest, env, index, source>>

\* A request for /portfolio.
RenderTopGalleryPage ==
    \E useManifest \in BOOLEAN :
        /\ call' = [op |-> "TopGalleryPage", useManifest |-> useManifest,
                    slug |-> <<>>,
                    page |-> TopGalleryPage(useManifest)]
        /\ UNCHANGED <<ls, ctl, manifest, env, index, source>>

NextPages == RenderGalleryPage \/ RenderTopGalleryPage \/ RunGenerator

SpecPages == InitPages /\ [][NextPages]_vars

-----------------------------------------------------------------------------
(* Lookups by address *)

\* How many segments a looked-up address has at most.
MaxSlugLen == 2

PathN1 == << <<"N", " ", "1">> >>

SegmentPool ==
    { Str("A"), Str("B"), Str("a"), Str("missing"),
      <<"N", " ", "1">>, <<"N", "%20", "1">>, <<"100", "%">> }

\* Portfolio/{A/B/x.jpg, "N 1"/x.jpg}.
InitLookup ==
    \E e \in DOMAIN EnvOpts :
        /\ ls = (<<>> :> <<DirE("A"), [name |-> <<"N", " ", "1">>, kind |-> "dir"]>>)
                @@ (PathA :> <<DirE("B")>>)
                @@ (PathAB :> <<FileE("x.jpg")>>)
                @@ (PathN1 :> <<FileE("x.jpg")>>)
        /\ ctl = (<<>> :> NoCtl) @@ (PathA :> NoCtl) @@ (PathAB :> NoCtl)
                 @@ (PathN1 :> NoCtl)
        /\ env = EnvOpts[e]
        /\ manifest = NoManifest
        /\ index = <<>>
        /\ source = "none"
        /\ call = NoCall

GetNodeBySlug ==
    \E useManifest \in BOOLEAN, slugParts \in SeqsUpTo(MaxSlugLen, SegmentPool) :
        /\ call' = [op |-> "getNodeBySlug", useManifest |-> useManifest,
                    slug |-> slugParts,
                    result |-> getNodeBySlug(useManifest, slugParts)]
        /\ UNCHANGED <<ls, ctl, manifest, env, index, source>>

NextLookup == GetNodeBySlug \/ RunGenerator

SpecLookup == InitLookup /\ [][NextLookup]_vars

-----------------------------------------------------------------------------
(* The scripts that maintain the listing files *)

\* Listing files a directory holds before any script runs: none, or stale ones.
ScriptProfiles == [files : DOMAIN FilesOpts, fb : DOMAIN FallbackOpts]

scriptCtlOf(p) ==
    [NoCtl EXCEPT ![".folders"] = FallbackOpts[p.fb].folders,
                  ![".images"] = FallbackOpts[p.fb].images]

\* shape "flat": Portfolio/{.meta, A, B}; shape "bare": Portfolio/{.meta}.
InitScripts ==
    \E shape \in {"flat", "bare"}, r, a, b \in ScriptProfiles :
        /\ (shape = "bare" => a = r /\ b = r)
        /\ ls = IF shape = "flat"
                THEN (<<>> :> (<<DirE(".meta"), DirE("A"), DirE("B")>>
                               \o FilesOpts[r.files]))
                     @@ (PathMeta :> <<>>)
                     @@ (PathA :> FilesOpts[a.files])
                     @@ (PathB :> FilesOpts[b.files])
                ELSE (<<>> :> (<<DirE(".meta")>> \o FilesOpts[r.files]))
                     @@ (PathMeta :> <<>>)
        /\ ctl = IF shape = "flat"
                 THEN (<<>> :> scriptCtlOf(r)) @@ (PathMeta :> NoCtl)
                      @@ (PathA :> scriptCtlOf(a)) @@ (PathB :> scriptCtlOf(b))
                 ELSE (<<>> :> scriptCtlOf(r)) @@ (PathMeta :> NoCtl)
        /\ env = EnvOpts[1]
        /\ manifest = NoManifest
        /\ index = <<>>
        /\ source = "none"
        /\ call = NoCall

\* node scripts/gen-order-files.mjs [--no-overwrite]
RunGenOrderFiles ==
    \E noOverwrite \in BOOLEAN :
        LET writes == {w \in walk(<<>>) : writesFileIfChanged(w, noOverwrite)}
            to(d, f) == CHOOSE w \in writes : w.dir = d /\ w.file = f
        IN /\ ctl' = [d \in DOMAIN ctl |->
                         [f \in CtlNames |->
                             IF \E w \in writes : w.dir = d /\ w.file = f
                             THEN to(d, f).content ELSE ctl[d][f]]]
           /\ index' = <<>>
           /\ source' = "none"
           /\ call' = [op |-> "gen-order-files",
                       written |-> {<<w.dir, w.file>> : w \in writes},
                       removed |-> {},
                       manifestWritten |-> FALSE]
           /\ UNCHANGED <<ls, manifest, env>>

\* node scripts/update-folders.mjs
RunUpdateFolders ==
    LET content == joinedLines(listTopLevelDirs)
        unchanged == ctl[<<>>][".folders"] = content
    IN /\ ctl' = [ctl EXCEPT ![<<>>][".folders"] = content]
       /\ index' = <<>>
       /\ source' = "none"
       /\ call' = [op |-> "update-folders",
                   written |-> IF unchanged THEN {} ELSE {<< <<>>, ".folders" >>},
                   removed |-> {},
                   manifestWritten |-> FALSE]
       /\ UNCHANGED <<ls, manifest, env>>

NextScripts == RunGenerator \/ RunGenOrderFiles \/ RunUpdateFolders

SpecScripts == InitScripts /\ [][NextScripts]_vars

-----------------------------------------------------------------------------
(* Vocabulary of the properties *)

NoDup(s) == \A i, j \in DOMAIN s : s[i] = s[j] => i = j

Count(s, x) == Cardinality({i \in DOMAIN s : s[i] = x})

IsPermutationOf(r, s) ==
    Len(r) = Len(s) /\ \A x \in Range(r) \cup Range(s) : Count(r, x) = Count(s, x)

\* The entries of s that are in S, in the order of s.
RECURSIVE Keep(_, _)
Keep(s, S) ==
    IF s = <<>> THEN <<>>
    ELSE IF Head(s) \in S THEN <<Head(s)>> \o Keep(Tail(s), S)
    ELSE Keep(Tail(s), S)

\* Listed entries that exist, in listed order, then the unlisted items.
Merged(items, desired) ==
    Keep(desired, Range(items)) \o Keep(items, Range(items) \ Range(desired))

RECURSIVE NodesOf(_)
NodesOf(n) == {n} \cup UNION {NodesOf(n.children[i]) : i \in DOMAIN n.children}

\* Positions in a tree: the sequences of child indices from the root.
RECURSIVE PositionsOf(_)
PositionsOf(n) ==
    {<<>>} \cup UNION {{<<i>> \o q : q \in PositionsOf(n.children[i])} :
                          i \in DOMAIN n.children}

RECURSIVE NodeAt(_, _)
NodeAt(n, pos) ==
    IF pos = <<>> THEN n ELSE NodeAt(n.children[Head(pos)], Tail(pos))

LiveNodes == IF source = "live" THEN NodesOf(index) ELSE {}

ReturnedNodes == IF source \in {"live", "manifest"} THEN NodesOf(index) ELSE {}

\* What is on disk in a directory.
SubdirsOnDisk(p) ==
    Keep(entryNames(SelectSeq(ls[p], LAMBDA e : e.kind = "dir")),
         {d \in Range(entryNames(ls[p])) : ~ startsWithDot(d)})

MediaOnDisk(p) ==
    Keep(entryNames(SelectSeq(ls[p], LAMBDA e : e.kind = "file")),
         {f \in Range(entryNames(ls[p])) : isImageFile(f)})

IsLeafDir(p) == SubdirsOnDisk(p) = <<>>

\* The line as a name: surrounding blanks and byte-order marks do not count.
NameOfLine(l) == trim(removeAllBOM(l))

IsCommentOrBlank(l) ==
    \/ NameOfLine(l) = EmptyStr
    \/ Head(NameOfLine(l)) = "#"
    \/ (Len(NameOfLine(l)) >= 2 /\ SubSeq(NameOfLine(l), 1, 2) = <<"/", "/">>)

\* The names a .order file yields.
RECURSIVE NamesOfLines(_)
NamesOfLines(lines) ==
    IF lines = <<>> THEN <<>>
    ELSE IF IsCommentOrBlank(Head(lines)) THEN NamesOfLines(Tail(lines))
    ELSE <<NameOfLine(Head(lines))>> \o NamesOfLines(Tail(lines))

OrderNamesOf(p) == NamesOfLines(ctl[p][".order"].lines)

\* The names a .folders or .images file yields: its non-blank lines.
RECURSIVE NonBlankLines(_)
NonBlankLines(lines) ==
    IF lines = <<>> THEN <<>>
    ELSE IF trim(Head(lines)) = EmptyStr THEN NonBlankLines(Tail(lines))
    ELSE <<trim(Head(lines))>> \o NonBlankLines(Tail(lines))

DesiredFor(p, fallbackFile) ==
    IF OrderNamesOf(p) # <<>> THEN OrderNamesOf(p)
    ELSE NonBlankLines(ctl[p][fallbackFile].lines)

-----------------------------------------------------------------------------
(* C1 *)

\* C1: applyOrder(items, desired) is the entries of desired that occur in items,
\* in desired's order, followed by the entries of items that do not occur in
\* desired, in their original order; so for duplicate-free items and desired the
\* result is a permutation of items, and when desired lists every item exactly
\* once (and nothing else) the result is desired.
C1_ApplyOrderIsStableMerge ==
    (call.op = "applyOrder" /\ call.done) =>
        /\ call.result = Merged(call.items, call.desired)
        /\ (NoDup(call.items) /\ NoDup(call.desired))
               => IsPermutationOf(call.result, call.items)
        /\ (NoDup(call.desired) /\ Range(call.desired) = Range(call.items))
               => call.result = call.desired

\* A call whose desired list names an item, names a stranger, and leaves an
\* item unlisted.
C1_Witness ==
    /\ call.op = "applyOrder" /\ call.done
    /\ call.items = <<Str("x.jpg"), Str("y.jpg")>>
    /\ call.desired = <<Str("A"), Str("y.jpg")>>
    /\ call.result = <<Str("y.jpg"), Str("x.jpg")>>

-----------------------------------------------------------------------------
(* C2 *)

ListedTimes(p, f) == Count(OrderNamesOf(p), f)

\* C2: when the .order of a leaf directory lists an existing media file k >= 2
\* times, the leaf's media list holds that file k times, at the listed
\* positions, and is longer than the set of media files on disk.
C2_RepeatedNameShownRepeatedly ==
    \A n \in LiveNodes :
        IsLeafDir(n.fsPath) =>
            \A f \in Range(MediaOnDisk(n.fsPath)) :
                ListedTimes(n.fsPath, f) >= 2 =>
                    /\ Count(n.images, f) = ListedTimes(n.fsPath, f)
                    /\ \A i \in DOMAIN OrderNamesOf(n.fsPath) :
                           OrderNamesOf(n.fsPath)[i] = f =>
                               \E j \in DOMAIN n.images :
                                   /\ n.images[j] = f
                                   /\ Count(SubSeq(n.images, 1, j), f)
                                        = Count(SubSeq(OrderNamesOf(n.fsPath), 1, i), f)
                    /\ Len(n.images) > Cardinality(Range(MediaOnDisk(n.fsPath)))

\* A built leaf holding two media files whose .order names one of them twice.
C2_Witness ==
    \E n \in LiveNodes :
        /\ IsLeafDir(n.fsPath)
        /\ Len(MediaOnDisk(n.fsPath)) = 2
        /\ ListedTimes(n.fsPath, Str("x.jpg")) = 2
        /\ n.images = <<Str("x.jpg"), Str("x.jpg"), Str("y.jpg")>>

-----------------------------------------------------------------------------
(* C3 *)

ChildNames(n) == [i \in DOMAIN n.children |-> n.children[i].name]

-----------------------------------------------------------------------------
(* C4 *)

\* C4: in every tree the entry point returns, live or from the snapshot, a node
\* with one or more children has no media list.
C4_ParentsExposeNoMedia ==
    \A n \in ReturnedNodes : n.children # <<>> => n.images = Undefined

-----------------------------------------------------------------------------
(* C5 *)

HasCoverFile(p) == ctl[p][".cover"].ex

\* C5: a leaf directory holding exactly one media file x and no .cover file is
\* built with media list [x] and cover webPath + "/" + x.
C5_SingleMediaLeaf ==
    \A n \in LiveNodes :
        (IsLeafDir(n.fsPath) /\ Len(MediaOnDisk(n.fsPath)) = 1
            /\ ~ HasCoverFile(n.fsPath)) =>
                /\ n.images = MediaOnDisk(n.fsPath)
                /\ n.coverWebPath = Append(n.webPath, MediaOnDisk(n.fsPath)[1])

Repeat(x, k) == [i \in 1..k |-> x]

\* C5 as amended: the cover is webPath + "/" + x and the media list holds x
\* only: once, unless the effective order list (.order, else .images) names x
\* several times, and then once per listing.
C5_SingleMediaLeafAmended ==
    \A n \in LiveNodes :
        (IsLeafDir(n.fsPath) /\ Len(MediaOnDisk(n.fsPath)) = 1
            /\ ~ HasCoverFile(n.fsPath)) =>
                LET x == MediaOnDisk(n.fsPath)[1]
                    k == Count(DesiredFor(n.fsPath, ".images"), x)
                IN /\ n.images = Repeat(x, IF k >= 2 THEN k ELSE 1)
                   /\ n.coverWebPath = Append(n.webPath, x)

\* A built leaf with the single media file x.jpg, no .cover, and a .order that
\* names x.jpg twice.
C5_Witness ==
    \E n \in LiveNodes :
        /\ IsLeafDir(n.fsPath) /\ ~ HasCoverFile(n.fsPath)
        /\ MediaOnDisk(n.fsPath) = <<Str("x.jpg")>>
        /\ n.images = <<Str("x.jpg"), Str("x.jpg")>>
        /\ n.coverWebPath = Append(n.webPath, Str("x.jpg"))

-----------------------------------------------------------------------------
(* C6 *)

RECURSIVE SameView(_, _)
SameView(a, b) ==
    /\ a.webPath = b.webPath
    /\ a.coverWebPath = b.coverWebPath
    /\ a.images = b.images
    /\ Len(a.children) = Len(b.children)
    /\ \A i \in DOMAIN a.children : SameView(a.children[i], b.children[i])

\* C6: the tree normalized from the generator's snapshot has, at every depth,
\* the nodes, public addresses, cover addresses and media lists of a live scan
\* of the same collection.  (Stated without the development cap, which only
\* the live scan applies.)
C6_SnapshotMatchesLiveScan ==
    (source = "manifest" /\ ~ isDevRuntime) => SameView(index, buildNode(<<>>))

-----------------------------------------------------------------------------
(* C7 *)

\* C7: in a tree returned by a live build no two nodes at different positions
\* have the same public address, whatever .order and .folders contain.
C7_AddressesDistinct ==
    source = "live" =>
        \A p, q \in PositionsOf(index) :
            p # q => NodeAt(index, p).webPath # NodeAt(index, q).webPath

-----------------------------------------------------------------------------
(* C8 *)

Yields(c) == c.coverWebPath # Undefined \/ c.images # <<>>

SomeChildYields(kids) == \E i \in DOMAIN kids : Yields(kids[i])

FirstYielding(kids) ==
    kids[CHOOSE i \in DOMAIN kids :
             Yields(kids[i]) /\ \A j \in 1..(i - 1) : ~ Yields(kids[j])]

FirstMediaOf(c) == Append(c.webPath, c.images[1])

\* The cover of the directory is taken from its children: no override yields an
\* address and the directory does not hold exactly one media file.
CoverTakenFromChildren(n) ==
    /\ coverFromOverride(n.fsPath, n.fsPath) = Undefined
    /\ Len(MediaOnDisk(n.fsPath)) # 1
    /\ SomeChildYields(builtChildren(n.fsPath))

-----------------------------------------------------------------------------
(* C9 *)

\* C9: a directory with no .cover and no media file of its own takes its cover
\* from the first child, in display order, that has a cover or a media file;
\* earlier children with neither are skipped, later ones are not consulted, and
\* with no such child there is no cover.
C9_FirstYieldingChildGivesCover ==
    \A n \in LiveNodes :
        (~ HasCoverFile(n.fsPath) /\ MediaOnDisk(n.fsPath) = <<>>) =>
            LET kids == builtChildren(n.fsPath)
            IN IF SomeChildYields(kids)
               THEN LET c == FirstYielding(kids)
                    IN /\ n.coverWebPath # Undefined
                       /\ \/ n.coverWebPath = c.coverWebPath
                          \/ c.images # <<>> /\ n.coverWebPath = FirstMediaOf(c)
               ELSE n.coverWebPath = Undefined

\* The scenario of the claim: children [C1 with nothing, C2 with x.jpg].
C9_Witness ==
    \E n \in LiveNodes :
        /\ ~ HasCoverFile(n.fsPath) /\ MediaOnDisk(n.fsPath) = <<>>
        /\ LET kids == builtChildren(n.fsPath)
           IN /\ Len(kids) = 2
              /\ ~ Yields(kids[1])
              /\ kids[2].images = <<Str("x.jpg")>>
              /\ n.coverWebPath = Append(kids[2].webPath, Str("x.jpg"))

-----------------------------------------------------------------------------
(* C10 *)

\* Walking the segments from `depth` directories below the root, some ".."
\* is met at the root itself.
RECURSIVE ClimbsAbove(_, _)
ClimbsAbove(depth, segs) ==
    IF segs = <<>> THEN FALSE
    ELSE IF Head(segs) = Str("..")
         THEN depth = 0 \/ ClimbsAbove(depth - 1, Tail(segs))
    ELSE IF Head(segs) \in {EmptyStr, Str(".")} THEN ClimbsAbove(depth, Tail(segs))
    ELSE ClimbsAbove(depth + 1, Tail(segs))

\* The .cover line of the directory is an address that leaves the collection.
OverrideEscapesRoot(p) ==
    LET line == backslashesToSlashes(readFirstLineIfExists(p, ".cover"))
        segs == split(stripLeadingSlashes(line), "/")
    IN /\ line # EmptyStr
       /\ IF startsWithPortfolioSlash(stripLeadingSlashes(line))
          THEN ClimbsAbove(0, Tail(segs))
          ELSE ~ startsWith(line, "/") /\ ClimbsAbove(Len(p), segs)

\* The cover buildNode gives the directory when rule 1 yields nothing.
CoverWithoutOverride(n) ==
    LET imgs == orderedImages(n.fsPath)
        kids == builtChildren(n.fsPath)
    IN nodeCover(kids = <<>>, imgs, n.webPath,
                 IF Len(imgs) = 1 THEN Append(n.webPath, imgs[1])
                 ELSE coverFromChildren(kids))

\* C10: a .cover address whose ".." segments climb above the collection root
\* is treated as an absent override: the directory gets the cover it would have
\* without a .cover file, never a file reached by clamping at the root or by the
\* subtree search.
C10_EscapingOverrideRejected ==
    \A n \in LiveNodes :
        OverrideEscapesRoot(n.fsPath) => n.coverWebPath = CoverWithoutOverride(n)

-----------------------------------------------------------------------------
(* C11 *)

\* The line holds nothing but white space and invisible characters.
IsBlankLine(l) == \A i \in DOMAIN l : l[i] \in WhiteSpace \cup WeirdChars

\* The first visible text of the line.
VisibleText(l) == DropWhileIn(l, WhiteSpace \cup WeirdChars)

IsHashComment(l) == startsWith(VisibleText(l), "#")

IsSlashSlashComment(l) == startsWithSlashSlash(VisibleText(l))

\* The directory has a .cover file and each of its lines satisfies IsVoid.
CoverFileHasOnly(p, IsVoid(_)) ==
    /\ ctl[p][".cover"].ex
    /\ \A i \in DOMAIN ctl[p][".cover"].lines : IsVoid(ctl[p][".cover"].lines[i])

-----------------------------------------------------------------------------
(* C12 *)

\* The web path names, segment by segment as spelled on disk, a regular file
\* with a media extension under the collection root.
IsMediaFileOnDisk(webPath) ==
    /\ Len(webPath) >= 2
    /\ Head(webPath) = Str("Portfolio")
    /\ LET dir == SubSeq(webPath, 2, Len(webPath) - 1)
           file == Last(webPath)
       IN /\ dir \in DOMAIN ls
          /\ \E i \in DOMAIN ls[dir] :
                 ls[dir][i].name = file /\ ls[dir][i].kind = "file"
          /\ isImageFile(file)

\* C12: in a tree produced by a live scan, the cover address of a node, when
\* present, is the address of a regular media file that exists under the
\* collection root, spelled with the on-disk case of every segment.
C12_LiveCoverExistsOnDisk ==
    \A n \in LiveNodes :
        n.coverWebPath # Undefined => IsMediaFileOnDisk(n.coverWebPath)

-----------------------------------------------------------------------------
(* C13 *)

\* The directories of the subtree of d, d included, dot-directories left out.
RECURSIVE SubtreeDirs(_)
SubtreeDirs(d) ==
    {d} \cup UNION {SubtreeDirs(Append(d, sub)) :
                        sub \in {x \in Range(dirsOf(readDirSafe(d))) :
                                     ~ startsWithDot(x)}}

\* Case-insensitive alphabetical order of two paths of the same length.
RECURSIVE AlphaLess(_, _)
AlphaLess(p, q) ==
    /\ p # <<>>
    /\ \/ alphaRank(Head(p)) < alphaRank(Head(q))
       \/ alphaRank(Head(p)) = alphaRank(Head(q)) /\ AlphaLess(Tail(p), Tail(q))

\* Breadth-first: shallower first, then alphabetical.
VisitedBefore(p, q) == Len(p) < Len(q) \/ (Len(p) = Len(q) /\ AlphaLess(p, q))

\* The files of the directory that match the name: the exact one if there is
\* one, else those equal up to case.
MatchesIn(dir, target) ==
    LET files == Range(filesOf(readDirSafe(dir)))
    IN IF target \in files THEN {target}
       ELSE {f \in files : toLowerCase(f) = toLowerCase(target)}

\* The .cover line of the directory, as the segments it names from the root.
OverrideLine(p) ==
    trim(backslashesToSlashes(stripWeirdPrefix(readFirstLineIfExists(p, ".cover"))))

OverrideSegments(p) == normalizeParts(p \o split(OverrideLine(p), "/"))

\* A relative-looking .cover line naming a media file that is not where the
\* line says.
IsUnresolvedRelativeOverride(p) ==
    /\ OverrideLine(p) # EmptyStr
    /\ ~ startsWith(OverrideLine(p), "/")
    /\ ~ startsWithPortfolioSlash(OverrideLine(p))
    /\ OverrideSegments(p) # <<>>
    /\ hasCoverImageExt(Last(OverrideSegments(p)))
    /\ correctCaseUnderPortfolio(OverrideSegments(p)) = NullParts

DirsHolding(p, target) == {d \in SubtreeDirs(p) : MatchesIn(d, target) # {}}

\* C13: a relative-looking .cover line of a directory D whose last segment has
\* a media extension and whose path does not exist makes the cover the first
\* file of that name met in a breadth-first search of the subtree of D, at any
\* depth: directories in case-insensitive alphabetical order, dot-directories
\* skipped, an exact name before one equal up to case, spelled as on disk.
C13_UnresolvedOverrideSearchesSubtree ==
    \A n \in LiveNodes :
        LET target == Last(OverrideSegments(n.fsPath))
            holding == DirsHolding(n.fsPath, target)
        IN IsUnresolvedRelativeOverride(n.fsPath) /\ holding # {}
           => \E d \in holding :
                 /\ \A e \in holding \ {d} : VisitedBefore(d, e)
                 /\ \E f \in MatchesIn(d, target) :
                        n.coverWebPath = <<Str("Portfolio")>> \o d \o <<f>>

\* The root's .cover names sub/x.jpg, which does not exist; the only x.jpg
\* lies three levels down and is the root's cover.
C13_Witness ==
    /\ source = "live"
    /\ IsUnresolvedRelativeOverride(<<>>)
    /\ DirsHolding(<<>>, Str("x.jpg")) = {PathABC}
    /\ index.coverWebPath = <<Str("Portfolio")>> \o PathABC \o <<Str("x.jpg")>>

-----------------------------------------------------------------------------
(* C14 *)

\* The tree the rendered page was built from.
TreeOfCall == getGalleryIndex(call.useManifest).node

PageShown(op) == call.op = op /\ call.page.status = "ok"

\* The node of the tree at the address, as a set of at most one node here.
NodesAtAddress(tree, webPath) == {n \in NodesOf(tree) : n.webPath = webPath}

\* The addresses the lines of the .aliases file name, in file order, keeping
\* those found in the tree that are no real child of the node.
RECURSIVE ExpectedAliasTargets(_, _, _, _)
ExpectedAliasTargets(tree, lines, slugParts, node) ==
    IF lines = <<>> THEN <<>>
    ELSE LET parts == resolveLineToSlugParts(Head(lines), slugParts)
             address == <<Str("Portfolio")>> \o parts
             rest == ExpectedAliasTargets(tree, Tail(lines), slugParts, node)
         IN IF /\ parts # NullParts
               /\ NodesAtAddress(tree, address) # {}
               /\ address \notin webPathsOf(node.children)
            THEN <<address>> \o rest
            ELSE rest

AliasTilesShown == SelectSeq(call.page.gridNodes, LAMBDA t : t.isAlias)

\* C14: on the page of a node D the alias tiles are one tile per line of D's
\* .aliases file that names an address found in the built tree which is not
\* the address of a real child of D, in file order and after all real
\* children; other lines give no tile and no error.
C14_AliasTilesPerResolvingLine ==
    PageShown("GalleryPage") =>
        LET node == descend(TreeOfCall, call.slug).node
            grid == call.page.gridNodes
            nReal == Len(node.children)
        IN /\ Len(grid) >= nReal
           /\ \A i \in 1..nReal :
                  ~ grid[i].isAlias /\ grid[i].webPath = node.children[i].webPath
           /\ \A i \in (nReal + 1)..Len(grid) : grid[i].isAlias
           /\ [i \in DOMAIN AliasTilesShown |-> AliasTilesShown[i].webPath]
              = ExpectedAliasTargets(TreeOfCall,
                                     readLinesIfExists(node.fsPath, ".aliases"),
                                     call.slug, node)

-----------------------------------------------------------------------------
(* C15 *)

AliasTilesOn(page) == SelectSeq(page.gridNodes, LAMBDA t : t.isAlias)

\* C15: the alias count that addAliasCountsToChildren attaches to the tile of a
\* node D on the top page equals the number of alias tiles on D's own page,
\* both read from the same .aliases file, so that the count the grid displays
\* is D's real children plus its alias tiles.
C15_AliasCountMatchesAliasTiles ==
    call.op = "TopGalleryPage" =>
        /\ call.page.status = "ok"
        /\ \A i \in DOMAIN call.page.gridNodes :
               LET tile == call.page.gridNodes[i]
                   own == GalleryPage(call.useManifest, <<tile.slug>>)
               IN /\ own.status = "ok"
                  /\ tile.aliasChildrenCount = Len(AliasTilesOn(own))
                  /\ tile.realChildrenCount + tile.aliasChildrenCount
                     = Len(own.gridNodes)

-----------------------------------------------------------------------------
(* C16 *)

\* The children of the node that the segment names: by identifier, or by name
\* once the segment is decoded.
ChildrenNamedBy(node, segment) ==
    SelectSeq(node.children,
              LAMBDA c : \/ c.slug = segment
                         \/ (~ isMalformedURI(segment)
                             /\ c.name = decodeURIComponent(segment)))

\* One step per segment; a segment naming no child gives the not-found value.
RECURSIVE NodeAtAddress(_, _)
NodeAtAddress(node, segments) ==
    IF segments = <<>> THEN Found(node)
    ELSE IF ChildrenNamedBy(node, Head(segments)) = <<>> THEN Null
    ELSE NodeAtAddress(Head(ChildrenNamedBy(node, Head(segments))), Tail(segments))

\* C16: getNodeBySlug descends one segment at a time from the root, to a child
\* whose identifier is the segment or whose name is the decoded segment; a
\* segment that matches no child, at any depth, gives null, never the deepest
\* node reached and never a raised error; the empty sequence gives the root.
C16_LookupFindsOrReturnsNull ==
    call.op = "getNodeBySlug" =>
        /\ call.result.tag # "throw"
        /\ call.result = NodeAtAddress(TreeOfCall, call.slug)

-----------------------------------------------------------------------------
(* C17 *)

ScriptRan == call.op \in {"generate-manifest", "gen-order-files", "update-folders"}

\* C17: no run of generate-manifest, gen-order-files or update-folders writes
\* a .images file in the collection root, and after a run of generate-manifest
\* the root holds no .images file.
C17_NoMediaListingAtRoot ==
    ScriptRan =>
        /\ << <<>>, ".images" >> \notin call.written
        /\ (call.op = "generate-manifest" => ~ ctl[<<>>][".images"].ex)

-----------------------------------------------------------------------------
(* C18 *)

\* C18: no run of generate-manifest, gen-order-files or update-folders writes
\* a .folders file in a directory without visible subdirectories, nor a
\* .images file in a directory without media files.
C18_NoListingWithoutItems ==
    ScriptRan =>
        \A x \in call.written :
            /\ (x[2] = ".folders" => SubdirsOnDisk(x[1]) # <<>>)
            /\ (x[2] = ".images" => MediaOnDisk(x[1]) # <<>>)

-----------------------------------------------------------------------------
(* C19 *)

\* A run of the generator over a collection that a run of the generator left
\* as it is now: nothing but reads happened in between.
SecondGeneratorRun == manifest.ex /\ manifest.parses /\ RunGenerator

\* C19: a second run of the generator over an unchanged collection writes no
\* file at all, neither a listing file nor the snapshot, and leaves the
\* filesystem as the first run left it.
C19_SecondRunWritesNothing ==
    [][SecondGeneratorRun =>
           /\ call'.written = {} /\ call'.removed = {}
           /\ ~ call'.manifestWritten
           /\ ctl' = ctl /\ manifest' = manifest]_vars

-----------------------------------------------------------------------------
(* Collections whose snapshot file is missing or is not JSON *)

\* public/portfolio-manifest.json holding text JSON.parse rejects, e.g. a
\* file cut short.
CorruptManifest == [ex |-> TRUE, parses |-> FALSE, node |-> <<>>]

InitManifest ==
    \E e \in DOMAIN EnvOpts, m \in {NoManifest, CorruptManifest} :
      \E r \in ProfilesWithin(1) :
        \E a \in ProfilesWithin(1), b \in ProfilesWithin(0) :
            /\ ls = listingOf("flat", r, a, b)
            /\ ctl = controlsOf("flat", r, a, b)
            /\ env = EnvOpts[e]
            /\ manifest = m
            /\ index = <<>>
            /\ source = "none"
            /\ call = NoCall

NextManifest == GetGalleryIndex \/ RunGenerator

SpecManifest == InitManifest /\ [][NextManifest]_vars

-----------------------------------------------------------------------------
(* C20 *)

\* getGalleryIndex was called with the snapshot switch on while the snapshot
\* file exists and is not JSON.
CalledOnCorruptManifest ==
    /\ call.op = "getGalleryIndex" /\ call.useManifest
    /\ manifest.ex /\ ~ manifest.parses

\* C20: with the snapshot switch on and a snapshot file that cannot be parsed,
\* getGalleryIndex rejects: the caller gets an error and no tree, neither the
\* live scan's nor an empty one.
C20_CorruptManifestFailsLoudly ==
    CalledOnCorruptManifest => source = "error" /\ index = <<>>

C20_Witness == CalledOnCorruptManifest /\ source = "error"

-----------------------------------------------------------------------------
(* Environments of the development cap *)

\* Largest number NEXT_PUBLIC_GALLERY_LIMIT or a .dev-limit file holds; 0 is
\* a missing or invalid value.
MaxLimit == 2

PathC == <<Str("C")>>
PathAC == <<Str("A"), Str("C")>>
PathASub == <<Str("A"), Str("sub")>>

DevValues == {"unset", "0", "1", "true"}

NodeEnvValues == {"production", "development", "test"}

DevOrderOpts == {NoFile, File(<<Str("C"), Str("A")>>)}

\* Portfolio/{A/{B, C, sub}, B, C}, one image in every leaf.
InitDev ==
    \E dev \in DevValues, nodeEnv \in NodeEnvValues, order \in DevOrderOpts :
      \E fromEnv \in 0..MaxLimit, cwd \in 0..MaxLimit, portfolio \in 0..MaxLimit :
        /\ ls = (<<>> :> <<DirE("A"), DirE("B"), DirE("C")>>)
                @@ (PathA :> <<DirE("B"), DirE("C"), DirE("sub")>>)
                @@ (PathB :> <<FileE("x.jpg")>>)
                @@ (PathC :> <<FileE("x.jpg")>>)
                @@ (PathAB :> <<FileE("x.jpg")>>)
                @@ (PathAC :> <<FileE("x.jpg")>>)
                @@ (PathASub :> <<FileE("x.jpg")>>)
        /\ ctl = (<<>> :> [NoCtl EXCEPT ![".order"] = order])
                 @@ (PathA :> [NoCtl EXCEPT ![".order"] = order])
                 @@ (PathB :> NoCtl) @@ (PathC :> NoCtl) @@ (PathAB :> NoCtl)
                 @@ (PathAC :> NoCtl) @@ (PathASub :> NoCtl)
        /\ env = [NEXT_PUBLIC_DEV |-> dev, NODE_ENV |-> nodeEnv,
                  NEXT_PUBLIC_GALLERY_LIMIT |-> fromEnv,
                  devLimitFileCwd |-> cwd, devLimitFilePortfolio |-> portfolio]
        /\ manifest = NoManifest
        /\ index = <<>>
        /\ source = "none"
        /\ call = NoCall

NextDev == GetGalleryIndex \/ RunGenerator

SpecDev == InitDev /\ [][NextDev]_vars

-----------------------------------------------------------------------------
(* C21 *)

FirstN(s, n) == SubSeq(s, 1, IF n < Len(s) THEN n ELSE Len(s))

\* The cap in force: the environment value if valid, else the first valid
\* .dev-limit file, and none outside the development runtime.
CapInForce ==
    IF ~ isDevRuntime THEN 0
    ELSE IF env.NEXT_PUBLIC_GALLERY_LIMIT > 0 THEN env.NEXT_PUBLIC_GALLERY_LIMIT
    ELSE IF env.devLimitFileCwd > 0 THEN env.devLimitFileCwd
    ELSE IF env.devLimitFilePortfolio > 0 THEN env.devLimitFilePortfolio
    ELSE 0

\* C21: in a live tree the root's children are the first N subdirectories in
\* display order, N being the cap in force (all of them without a cap), and
\* every node below the root has all its subdirectories as children.
C21_CapTruncatesRootOnly ==
    source = "live" =>
        /\ ChildNames(index) =
               IF CapInForce > 0 THEN FirstN(orderedDirs(<<>>), CapInForce)
               ELSE orderedDirs(<<>>)
        /\ \A n \in NodesOf(index) :
               n.fsPath # <<>> => ChildNames(n) = orderedDirs(n.fsPath)

C21_Witness ==
    /\ source = "live"
    /\ Len(index.children) = 1
    /\ env.NEXT_PUBLIC_GALLERY_LIMIT = 0 /\ env.devLimitFileCwd = 0
    /\ Len(index.children[1].children) = 3

-----------------------------------------------------------------------------
(* Lines of the address grammar *)

\* Longest line, in atoms, handed to the two parsers.
MaxLineLen == 3

LineAtoms == {"/", "\\", " ", "BOM", "#", "..", "Portfolio", "B", "x.jpg"}

GrammarLines == SeqsUpTo(MaxLineLen, LineAtoms)

GrammarDirs == {<<>>, PathA, PathAB}

\* The line and the current directory the parsers are about to be given.
InitGrammar ==
    \E rawLine \in GrammarLines, currentSlugParts \in GrammarDirs :
        /\ ls = (<<>> :> <<DirE("A")>>) @@ (PathA :> <<DirE("B")>>)
                @@ (PathAB :> <<FileE("x.jpg")>>)
        /\ ctl = (<<>> :> NoCtl) @@ (PathA :> NoCtl) @@ (PathAB :> NoCtl)
        /\ env = EnvOpts[1]
        /\ manifest = NoManifest
        /\ index = <<>>
        /\ source = "none"
        /\ call = [op |-> "none", rawLine |-> rawLine,
                   currentSlugParts |-> currentSlugParts]

\* resolveLineToSlugParts(rawLine, currentSlugParts), as the alias loops call it.
ResolveLineToSlugParts ==
    /\ call' = [op |-> "resolveLineToSlugParts", rawLine |-> call.rawLine,
                currentSlugParts |-> call.currentSlugParts,
                parts |-> resolveLineToSlugParts(call.rawLine,
                                                 call.currentSlugParts)]
    /\ UNCHANGED <<ls, ctl, manifest, env, index, source>>

\* resolveCover's own parsing of the line readFirstLineIfExists handed it.
ParseCoverLine ==
    /\ call' = [op |-> "resolveCover", rawLine |-> call.rawLine,
                currentSlugParts |-> call.currentSlugParts,
                parts |-> coverCandidateParts(call.rawLine, call.currentSlugParts)]
    /\ UNCHANGED <<ls, ctl, manifest, env, index, source>>

NextGrammar == ResolveLineToSlugParts \/ ParseCoverLine

SpecGrammar == InitGrammar /\ [][NextGrammar]_vars

-----------------------------------------------------------------------------
(* C22 *)

\* The line as both parsers normalize it: leading BOM/zero-width characters
\* and surrounding whitespace stripped, backslashes turned into "/".
NormalizedLine(l) == backslashesToSlashes(trim(stripWeirdPrefix(l)))

StartsWithSeparator(l) == startsWith(NormalizedLine(l), "/")

RootedAtMarker(l) == startsWithPortfolioSlash(stripLeadingSlashes(NormalizedLine(l)))

\* C22: resolveLineToSlugParts rejects every line that, once normalized, starts
\* with a path separator and is not rooted at the root marker.
C22_SeparatorLineRejected ==
    (/\ call.op = "resolveLineToSlugParts"
     /\ StartsWithSeparator(call.rawLine)
     /\ ~ RootedAtMarker(call.rawLine))
    => call.parts = NullParts

\* The same for lines whose first character as written is "/".
RawSlashLineRejected ==
    (/\ call.op = "resolveLineToSlugParts"
     /\ startsWith(call.rawLine, "/")
     /\ ~ RootedAtMarker(call.rawLine))
    => call.parts = NullParts

-----------------------------------------------------------------------------
(* C23 *)

\* A line as readFirstLineIfExists hands it to resolveCover: stripped, trimmed,
\* not blank and no comment.
IsOverrideLine(l) ==
    /\ l = trim(stripWeirdPrefix(l))
    /\ l # EmptyStr
    /\ ~ startsWith(l, "#")

\* C23: for every override line and every current directory, the candidate
\* parts of resolveCover's parsing (or its rejection) are the parts (or the
\* rejection) resolveLineToSlugParts computes for the same line.
C23_OneAddressGrammar ==
    (call.op = "resolveCover" /\ IsOverrideLine(call.rawLine))
    => call.parts = resolveLineToSlugParts(call.rawLine, call.currentSlugParts)

\* The same for the lines without a backslash and other than the bare root
\* marker.
SameGrammarOnPlainLines ==
    (/\ call.op = "resolveCover" /\ IsOverrideLine(call.rawLine)
     /\ ~ Includes(call.rawLine, "\\")
     /\ toLowerCase(Head(split(stripLeadingSlashes(call.rawLine), "/")))
            # Str("portfolio"))
    => call.parts = resolveLineToSlugParts(call.rawLine, call.currentSlugParts)

-----------------------------------------------------------------------------
(* Collections with access failures *)

\* An entry statSync throws on (a dangling link, a denied entry).
BrokenE(a) == [name |-> Str(a), kind |-> "broken"]

OrderBA == <<Str("B"), Str("A")>>

CoverToB == << <<"..", "/", "B", "/", "y.jpg">> >>

AccessOrderOpts == {NoFile, File(OrderBA), Unreadable(OrderBA)}

AccessCoverOpts == {NoFile, File(CoverToB), Unreadable(CoverToB)}

\* Portfolio/{A/x.jpg, B/{y.jpg, x.jpg}, sub}: sub and B/x.jpg cannot be
\* stat'ed, and A may be a directory readdirSync throws on, which is then no
\* key of ls while its control files may still be readable by name.
InitAccess ==
    \E order \in AccessOrderOpts, folders \in AccessOrderOpts,
       coverA \in AccessCoverOpts, coverB \in {NoFile, Unreadable(CoverToB)},
       listableA \in BOOLEAN :
        /\ ls = IF listableA
                THEN (<<>> :> <<DirE("A"), DirE("B"), BrokenE("sub")>>)
                     @@ (PathA :> <<FileE("x.jpg")>>)
                     @@ (PathB :> <<FileE("y.jpg"), BrokenE("x.jpg")>>)
                ELSE (<<>> :> <<DirE("A"), DirE("B"), BrokenE("sub")>>)
                     @@ (PathB :> <<FileE("y.jpg"), BrokenE("x.jpg")>>)
        /\ ctl = (<<>> :> [NoCtl EXCEPT ![".order"] = order,
                                        ![".folders"] = folders])
                 @@ (PathA :> [NoCtl EXCEPT ![".cover"] = coverA])
                 @@ (PathB :> [NoCtl EXCEPT ![".cover"] = coverB])
        /\ env = EnvOpts[1]
        /\ manifest = NoManifest
        /\ index = <<>>
        /\ source = "none"
        /\ call = NoCall

NextAccess == GetGalleryIndex

SpecAccess == InitAccess /\ [][NextAccess]_vars

-----------------------------------------------------------------------------
(* C24 *)

Unlistable(p) == p \notin DOMAIN ls

\* The visible subdirectories and the media files statSync succeeds on.
StatableDirs(p) ==
    {e.name : e \in {x \in Range(readDirSafe(p)) :
                        x.kind = "dir" /\ ~ startsWithDot(x.name)}}

StatableMedia(p) ==
    {e.name : e \in {x \in Range(readDirSafe(p)) :
                        x.kind = "file" /\ isImageFile(x.name)}}

\* The lines of a listing file that can be read, none otherwise.
ReadableNames(p, file) ==
    IF canRead(ctl[p][file]) THEN ctl[p][file].lines ELSE <<>>

\* Every listed directory is built: its children are all its stat-able
\* subdirectories, ordered by what can be read of .order and .folders, and
\* its media are stat-able files of its own.
BuiltNormally(n) ==
    /\ Range(ChildNames(n)) = StatableDirs(n.fsPath)
    /\ Len(n.children) = Cardinality(StatableDirs(n.fsPath))
    /\ Keep(ChildNames(n), Range(ReadableNames(n.fsPath, ".order")))
          = Keep(ReadableNames(n.fsPath, ".order"), StatableDirs(n.fsPath))
    /\ (ReadableNames(n.fsPath, ".order") = <<>>
          /\ ReadableNames(n.fsPath, ".folders") = <<>>)
        => ChildNames(n) = dirsOf(readDirSafe(n.fsPath))
    /\ Range(n.images) \subseteq StatableMedia(n.fsPath)
    /\ (n.children = <<>> => Range(n.images) = StatableMedia(n.fsPath))
    /\ (~ canRead(ctl[n.fsPath][".cover"]) /\ n.children = <<>>)
        => n.coverWebPath = IF n.images = <<>> THEN Undefined
                            ELSE Append(n.webPath, n.images[1])

\* C24 as stated: a live build never aborts on an access failure, a directory
\* that cannot be listed yields a node without children, media and cover, and
\* every other directory is built normally.
C24_UnlistableDirectoryIsBare ==
    (call.op = "getGalleryIndex" /\ ~ call.useManifest) =>
        /\ source = "live"
        /\ \A n \in NodesOf(index) :
               /\ BuiltNormally(n)
               /\ Unlistable(n.fsPath) =>
                      /\ n.children = <<>> /\ n.images = <<>>
                      /\ n.coverWebPath = Undefined

\* C24: a live build never aborts on an access failure; a directory that
\* cannot be listed yields a node without children and media, whose cover can
\* only come from an override file of its own that could still be read; every
\* other directory is built normally, unreadable files counting as absent and
\* entries that cannot be stat'ed being left out.
C24_AccessFailuresDegrade ==
    (call.op = "getGalleryIndex" /\ ~ call.useManifest) =>
        /\ source = "live"
        /\ \A n \in NodesOf(index) :
               /\ BuiltNormally(n)
               /\ Unlistable(n.fsPath) =>
                      /\ n.children = <<>> /\ n.images = <<>>
                      /\ n.coverWebPath # Undefined
                            => canRead(ctl[n.fsPath][".cover"])

C24_Witness ==
    /\ call.op = "getGalleryIndex" /\ ~ call.useManifest
    /\ Unlistable(PathA)
    /\ \E n \in NodesOf(index) : n.fsPath = PathA /\ n.coverWebPath = Undefined
    /\ "denied" \in DOMAIN (ctl[<<>>])[".order"]
    /\ ChildNames(index) = <<Str("A"), Str("B")>>

-----------------------------------------------------------------------------
(* Collections whose .cover files are empty *)

\* A file of zero bytes: split(/\r?\n/) yields one empty line.
EmptyFile == File(<<EmptyStr>>)

\* The collections of Init without override addresses, an empty .cover in
\* every directory.
InitEmptyCover ==
    \E shape \in {"flat", "chain"} :
      \E r \in {p \in ProfilesWithin(MaxFeatures - 1) : p.cover = 1} :
        \E a \in {p \in ProfilesWithin(MaxFeatures - 1 - features(r)) : p.cover = 1} :
          \E b \in {p \in ProfilesWithin(MaxFeatures - 1 - features(r) - features(a)) :
                        p.cover = 1} :
            /\ ls = listingOf(shape, r, a, b)
            /\ ctl = [p \in DOMAIN controlsOf(shape, r, a, b) |->
                         [controlsOf(shape, r, a, b)[p] EXCEPT ![".cover"] = EmptyFile]]
            /\ env = EnvOpts[1]
            /\ manifest = NoManifest
            /\ index = <<>>
            /\ source = "none"
            /\ call = NoCall

NextEmptyCover == GetGalleryIndex \/ RunGenerator

SpecEmptyCover == InitEmptyCover /\ [][NextEmptyCover]_vars

-----------------------------------------------------------------------------
(* C25 *)

HasEmptyCoverFile(p) == ctl[p][".cover"] = EmptyFile

\* The media files of a directory in its effective order.
MediaInOrder(p) == Merged(MediaOnDisk(p), DesiredFor(p, ".images"))

FirstImageIsCover(n) ==
    (HasEmptyCoverFile(n.fsPath) /\ MediaInOrder(n.fsPath) # <<>>)
    => n.coverWebPath = Append(n.webPath, Head(MediaInOrder(n.fsPath)))

\* C25: in a live tree, a directory with an empty .cover file and one or more
\* media files of its own has its first media file, in effective order, as
\* cover, with or without subdirectories.
C25_EmptyCoverGivesFirstImage ==
    \A n \in LiveNodes : FirstImageIsCover(n)

\* The same for the directories without subdirectories.
EmptyCoverGivesFirstImageInLeaves ==
    \A n \in LiveNodes : IsLeafDir(n.fsPath) => FirstImageIsCover(n)

\* The same for the trees read from the snapshot.
EmptyCoverGivesFirstImageInSnapshot ==
    source = "manifest" => \A n \in NodesOf(index) : FirstImageIsCover(n)

-----------------------------------------------------------------------------
(* C26 *)

\* C26: unless NEXT_PUBLIC_DEV is exactly "1", a live build truncates nothing,
\* whatever NODE_ENV is.
C26_DevOnlyWhenFlagIsOne ==
    (source = "live" /\ env.NEXT_PUBLIC_DEV # "1")
    => ChildNames(index) = orderedDirs(<<>>)

\* The same when NEXT_PUBLIC_DEV is "0" or NODE_ENV is "production".
NoCapWhenOffOrProduction ==
    (/\ source = "live" /\ env.NEXT_PUBLIC_DEV # "1"
     /\ (env.NEXT_PUBLIC_DEV = "0" \/ env.NODE_ENV = "production"))
    => ChildNames(index) = orderedDirs(<<>>)

-----------------------------------------------------------------------------
(* C27 *)

IsRootedOverride(p) == startsWithPortfolioSlash(stripLeadingSlashes(OverrideLine(p)))

\* The segments the .cover line of the directory names from the root, none for
\* a line that names nothing inside the collection.
NamedSegments(p) ==
    IF OverrideLine(p) = EmptyStr THEN <<>>
    ELSE IF IsRootedOverride(p)
         THEN normalizeParts(Tail(split(stripLeadingSlashes(OverrideLine(p)), "/")))
    ELSE IF startsWith(OverrideLine(p), "/") THEN <<>>
    ELSE OverrideSegments(p)

NamesMediaFile(p) ==
    NamedSegments(p) # <<>> /\ hasCoverImageExt(Last(NamedSegments(p)))

ResolvesDirectly(p) ==
    NamesMediaFile(p) /\ correctCaseUnderPortfolio(NamedSegments(p)) # NullParts

\* C27: a .cover line naming a media file whose path, case-corrected from the
\* root, exists makes that path the cover, whatever the subtree holds under
\* the same name; a rooted line whose path does not exist starts no search,
\* and the cover is the one the next rules give.
C27_DirectResolutionWins ==
    \A n \in LiveNodes :
        /\ ResolvesDirectly(n.fsPath)
           => n.coverWebPath =
                 slugToWebPath(correctCaseUnderPortfolio(NamedSegments(n.fsPath)))
        /\ (NamesMediaFile(n.fsPath) /\ IsRootedOverride(n.fsPath)
            /\ ~ ResolvesDirectly(n.fsPath))
           => n.coverWebPath = CoverWithoutOverride(n)

\* The root's line resolves to a file of B while the search from the root
\* would meet a file of that name in A first.
C27_Witness ==
    /\ source = "live"
    /\ ResolvesDirectly(<<>>) /\ ~ IsRootedOverride(<<>>)
    /\ index.coverWebPath = <<Str("Portfolio"), Str("B"), Str("x.jpg")>>
    /\ findFileUnderPortfolioBFS(<<>>, Str("x.jpg")) = <<Str("A"), Str("x.jpg")>>

\* A rooted line of the root names a path that does not exist while the
\* subtree holds a file of that name: the cover is not the one a search finds.
RootedLineStartsNoSearch ==
    /\ source = "live"
    /\ NamesMediaFile(<<>>) /\ IsRootedOverride(<<>>) /\ ~ ResolvesDirectly(<<>>)
    /\ findFileUnderPortfolioBFS(<<>>, Last(NamedSegments(<<>>))) # NullParts
    /\ index.coverWebPath
         # slugToWebPath(findFileUnderPortfolioBFS(<<>>, Last(NamedSegments(<<>>))))

-----------------------------------------------------------------------------
(* Collections of files of several kinds *)

MediaNamePool == {"x.jpg", "y.jpg", "X.JPG", "z.bmp", "n.txt"}

\* Portfolio/A holding two files, its .cover naming none or one of the pool.
InitMedia ==
    \E f \in MediaNamePool, g \in MediaNamePool, e \in DOMAIN EnvOpts,
       cover \in {NoFile} \cup {File(<<Str(c)>>) : c \in MediaNamePool} :
        /\ f # g
        /\ ls = (<<>> :> <<DirE("A")>>) @@ (PathA :> <<FileE(f), FileE(g)>>)
        /\ ctl = (<<>> :> NoCtl) @@ (PathA :> [NoCtl EXCEPT ![".cover"] = cover])
        /\ env = EnvOpts[e]
        /\ manifest = NoManifest
        /\ index = <<>>
        /\ source = "none"
        /\ call = NoCall

NextMedia == GetGalleryIndex \/ RunGenerator

SpecMedia == InitMedia /\ [][NextMedia]_vars

-----------------------------------------------------------------------------
(* C28 *)

FilesOnDisk(p) == Range(filesOf(readDirSafe(p)))

\* The three components classify the file alike.
ClassifiedAlike(f) ==
    /\ isImageFile(f) <=> hasCoverImageExt(f)
    /\ isImageFile(f) <=> genIsImageFile(f)

\* C28: the tree builder, the cover resolver and the generator classify every
\* file alike, and in a live tree a .cover line that is the name of a file the
\* builder lists as media of the directory makes that file the cover.
C28_OneMediaAllowList ==
    /\ \A n \in LiveNodes : \A f \in FilesOnDisk(n.fsPath) : ClassifiedAlike(f)
    /\ \A n \in LiveNodes :
           \A f \in Range(n.images) :
               readFirstLineIfExists(n.fsPath, ".cover") = f
               => n.coverWebPath = Append(n.webPath, f)

\* The same for the files with an extension all three lists hold.
OverrideOfCommonMediaResolves ==
    \A n \in LiveNodes :
        \A f \in Range(n.images) :
            (readFirstLineIfExists(n.fsPath, ".cover") = f /\ hasCoverImageExt(f))
            => n.coverWebPath = Append(n.webPath, f)

-----------------------------------------------------------------------------
(* Collections whose directory names need encoding *)

\* Directory names: plain, with a space, with a percent sign, and one that
\* reads like the slug of another.
DirNamePool ==
    { Str("A"), Str("a"), <<"N", " ", "1">>, <<"N", "%", "2", "0", "1">>,
      <<"100", "%">> }

DirNamed(name) == [name |-> name, kind |-> "dir"]

\* Root .order files over the two top directories, repeats included.
LinkOrderOpts(n1, n2) ==
    {NoFile, File(<<n2, n1>>), File(<<n1, n1>>), File(<<n2, n1, n2>>)}

\* Portfolio/{n1/sub/x.jpg, n2/x.jpg}.
InitLinks ==
    \E n1 \in DirNamePool, sub \in DirNamePool :
      \E n2 \in DirNamePool \ {n1}, e \in DOMAIN EnvOpts :
       \E order \in LinkOrderOpts(n1, n2) :
        /\ ls = (<<>> :> <<DirNamed(n1), DirNamed(n2)>>)
                @@ (<<n1>> :> <<DirNamed(sub)>>)
                @@ (<<n1, sub>> :> <<FileE("x.jpg")>>)
                @@ (<<n2>> :> <<FileE("x.jpg")>>)
        /\ ctl = (<<>> :> [NoCtl EXCEPT ![".order"] = order])
                 @@ (<<n1>> :> NoCtl) @@ (<<n1, sub>> :> NoCtl)
                 @@ (<<n2>> :> NoCtl)
        /\ env = EnvOpts[e]
        /\ manifest = NoManifest
        /\ index = <<>>
        /\ source = "none"
        /\ call = NoCall

\* GalleryGrid: the link of a tile is the base address plus the node's slug,
\* so the address of a node is the slugs on the way down to it.
RECURSIVE SlugsTo(_, _)
SlugsTo(n, pos) ==
    IF pos = <<>> THEN <<>>
    ELSE <<n.children[Head(pos)].slug>> \o SlugsTo(n.children[Head(pos)], Tail(pos))

\* A visitor follows the link of a node of the tree the live build returned.
FollowLink ==
    /\ source = "live"
    /\ \E pos \in PositionsOf(index) :
          call' = [op |-> "followLink", useManifest |-> FALSE,
                   slug |-> SlugsTo(index, pos),
                   node |-> NodeAt(index, pos),
                   result |-> getNodeBySlug(FALSE, SlugsTo(index, pos))]
    /\ UNCHANGED <<ls, ctl, manifest, env, index, source>>

NextLinks == GetGalleryIndex \/ FollowLink

SpecLinks == InitLinks /\ [][NextLinks]_vars

-----------------------------------------------------------------------------
(* C29 *)

\* C29: in a live tree built without the development cap, looking up the
\* slugs on the way from the root to a node returns that very node.
C29_LinksResolveToTheirNode ==
    (call.op = "followLink" /\ CapInForce = 0)
        => call.result = Found(call.node)

\* A link two levels down, through a directory whose slug differs from its
\* name, has been followed and led to its node.
C29_Witness ==
    /\ call.op = "followLink"
    /\ CapInForce = 0
    /\ Len(call.slug) = 2
    /\ call.slug[1] # call.node.name
    /\ \E i \in DOMAIN index.children : index.children[i].slug = call.slug[1]
                                        /\ index.children[i].slug # index.children[i].name
    /\ call.result = Found(call.node)

\* The same with the cap in force: a rebuilt tree is cut the same way.
LinksResolveUnderCap ==
    call.op = "followLink" => call.result = Found(call.node)

-----------------------------------------------------------------------------
(* C30 *)

\* The media files directly inside the directory of a node.
OwnMediaFiles(n) == {f \in FilesOnDisk(n.fsPath) : isImageFile(f)}

ListsOwnMediaOnly(n) == \A f \in Range(n.images) : f \in OwnMediaFiles(n)

\* C30: in every tree the entry point returns, from a live scan or from the
\* normalized snapshot, every entry of a node's media list is the name of a
\* media file directly inside that node's own directory.
C30_MediaListNamesOwnFiles ==
    \A n \in ReturnedNodes : ListsOwnMediaOnly(n)

\* The same for trees from a live scan only.
LiveMediaListNamesOwnFiles ==
    \A n \in LiveNodes : ListsOwnMediaOnly(n)

=============================================================================
